---- MODULE Spec2Model ----
(***************************************************************************)
(* A model of src/files/fix_zellij_kdl.py: the comment/string-aware        *)
(* scanner, the block locator, the five "ensure" mutators, the validator   *)
(* and the orchestration of main() with its atomic writes.                 *)
(*                                                                         *)
(* A document is a sequence of one-character strings.  Offsets are the     *)
(* 0-based offsets of the Python source: At(text, i) is text[i] and        *)
(* Slice(text, a, b) is text[a:b].  An Optional[int] that is None is -1.   *)
(***************************************************************************)
EXTENDS Integers, Sequences, FiniteSets, TLC

VARIABLES
    pc,         \* the statement of transform_config that runs next
    input,      \* the text handed to transform_config
    text,       \* the local `updated` of transform_config
    prev,       \* the value of `updated` before the last statement ran
    errors,     \* the list of validate_result, or the message of a raised error
    pass,       \* 1 in the first application of transform_config, 2 in the second
    first,      \* the result of the first application, kept for the second
    mpc,            \* the statement of main() or of atomic_write that runs next
    fs,             \* the directory of the config: the target file and the temp file
    skip,           \* args.skip_zellij_check
    generated,      \* the local `generated` of main
    original_text,  \* the local `original_text` of main
    updated_text,   \* the local `updated_text` of main
    changed,        \* the local `changed` of main
    content,        \* the parameter `content` of the atomic_write under way
    ret,            \* where main continues when that atomic_write returns
    calls,          \* how often each external command has been run
    status,         \* the exit status of the process, -1 while it runs
    stderr,         \* what the process has printed on the error stream
    failure,        \* the kind of the ConfigEditError raised, or none
    pre,            \* the target file as it was before the run
    replacing,      \* the target file when the last atomic_write began
    replaced,       \* how often the run has renamed a temp file over the target
    observed,       \* what a concurrent reader of the target saw last
    emitted,        \* the bytes the generator wrote to its standard output
    subject,        \* the text a scanner or block locator function is applied to
    call,           \* the function applied to subject and its other arguments
    result          \* what that function returned

pipeline_vars == <<pc, input, text, prev, errors, pass, first>>

main_vars ==
    <<mpc, fs, skip, generated, original_text, updated_text, changed, content,
      ret, calls, status, stderr, failure, pre, replacing, replaced, observed,
      emitted>>

scan_vars == <<subject, call, result>>

vars == <<pipeline_vars, main_vars, scan_vars>>

----------------------------------------------------------------------------
(* Python sequence primitives, 0-based.                                    *)

At(s, i) == s[i + 1]

Min(a, b) == IF a < b THEN a ELSE b

Max(a, b) == IF a > b THEN a ELSE b

\* s[a:b] for 0 <= a, with Python's clipping of b to len(s)
Slice(s, a, b) == SubSeq(s, a + 1, Min(b, Len(s)))

\* s.startswith(p, i)
StartsWithAt(s, p, i) ==
    /\ i + Len(p) <= Len(s)
    /\ \A k \in 1..Len(p) : s[i + k] = p[k]

\* the loop `i = lo; while i <= hi: s = Body(s, i); i += 1`.  Short ranges
\* are iterated in order; a long range is halved, so that the depth of the
\* evaluation stays logarithmic in its length (the test on {left} makes the
\* left half's result a value before the right half starts from it)
LoopChunk == 8

RECURSIVE Loop(_, _, _, _)
Loop(Body(_, _), s, lo, hi) ==
    IF lo > hi THEN s
    ELSE IF lo = hi THEN Body(s, lo)
    ELSE IF hi - lo < LoopChunk THEN Loop(Body, Body(s, lo), lo + 1, hi)
    ELSE LET mid  == (lo + hi) \div 2
             left == Loop(Body, s, lo, mid)
         IN  IF {left} # {} THEN Loop(Body, left, mid + 1, hi) ELSE s

\* the least element of the set S of integers, or none when S is empty
FirstOf(S, none) ==
    IF S = {} THEN none ELSE CHOOSE k \in S : \A j \in S : k <= j

\* the greatest element of the set S of integers, or none when S is empty
LastOf(S, none) ==
    IF S = {} THEN none ELSE CHOOSE k \in S : \A j \in S : j <= k

----------------------------------------------------------------------------
(* Character classes of Python's re module and of str.                     *)

UpperCase == {"A","B","C","D","E","F","G","H","I","J","K","L","M",
              "N","O","P","Q","R","S","T","U","V","W","X","Y","Z"}

LowerCase == {"a","b","c","d","e","f","g","h","i","j","k","l","m",
              "n","o","p","q","r","s","t","u","v","w","x","y","z"}

Digits == {"0","1","2","3","4","5","6","7","8","9"}

\* \w
IsWordChar(c) == c \in UpperCase \cup LowerCase \cup Digits \cup {"_"}

\* \s and str.isspace()
IsSpace(c) == c \in {" ", "\t", "\n", "\r"}

\* str.lower() of one character
Lower(c) ==
    CASE c = "A" -> "a" [] c = "B" -> "b" [] c = "C" -> "c" [] c = "D" -> "d"
      [] c = "E" -> "e" [] c = "F" -> "f" [] c = "G" -> "g" [] c = "H" -> "h"
      [] c = "I" -> "i" [] c = "J" -> "j" [] c = "K" -> "k" [] c = "L" -> "l"
      [] c = "M" -> "m" [] c = "N" -> "n" [] c = "O" -> "o" [] c = "P" -> "p"
      [] c = "Q" -> "q" [] c = "R" -> "r" [] c = "S" -> "s" [] c = "T" -> "t"
      [] c = "U" -> "u" [] c = "V" -> "v" [] c = "W" -> "w" [] c = "X" -> "x"
      [] c = "Y" -> "y" [] c = "Z" -> "z" [] OTHER -> c

LowerStr(s) == [k \in 1..Len(s) |-> Lower(s[k])]

\* \b at offset i of s, where the subject ends at offset end (re's endpos)
WordBoundary(s, i, end) ==
    LET before == i > 0 /\ IsWordChar(At(s, i - 1))
        after  == i < end /\ IsWordChar(At(s, i))
    IN  before # after

\* whether \bkeyword\b matches at offset i of s[:end]
KeywordAt(s, keyword, i, end) ==
    /\ i + Len(keyword) <= end
    /\ StartsWithAt(s, keyword, i)
    /\ WordBoundary(s, i, end)
    /\ WordBoundary(s, i + Len(keyword), end)

----------------------------------------------------------------------------
(* scan_code_and_depth                                                     *)

ScanInit(text_) ==
    [ code_mask |-> [k \in 0..(Len(text_) - 1) |-> FALSE],
      depth_before |-> [k \in 0..(Len(text_) - 1) |-> 0],
      depth |-> 0, in_string |-> FALSE, in_line_comment |-> FALSE,
      in_block_comment |-> FALSE, escaped |-> FALSE, i |-> 0 ]

\* a variant of CloseDepth that lets the depth fall below 0
CloseDepthUnclamped(depth) == depth - 1

\* depth = max(0, depth - 1)
CloseDepth(depth) == Max(0, depth - 1)

\* one iteration of the while loop, at i = s.i
ScanStep(text_, s0) ==
    LET i  == s0.i
        ch == At(text_, i)
        s  == [s0 EXCEPT !.depth_before[i] = s0.depth]
        next2(c1, c2) == i + 1 < Len(text_) /\ ch = c1 /\ At(text_, i + 1) = c2
    IN  IF s.in_line_comment THEN
            IF ch = "\n"
            THEN [s EXCEPT !.in_line_comment = FALSE, !.code_mask[i] = TRUE,
                           !.i = i + 1]
            ELSE [s EXCEPT !.i = i + 1]
        ELSE IF s.in_block_comment THEN
            IF next2("*", "/")
            THEN [s EXCEPT !.i = i + 2]
            ELSE [s EXCEPT !.i = i + 1]
        ELSE IF s.in_string THEN
            IF s.escaped THEN [s EXCEPT !.escaped = FALSE, !.i = i + 1]
            ELSE IF ch = "\\" THEN [s EXCEPT !.escaped = TRUE, !.i = i + 1]
            ELSE IF ch = "\"" THEN [s EXCEPT !.in_string = FALSE, !.i = i + 1]
            ELSE [s EXCEPT !.i = i + 1]
        ELSE IF next2("/", "/") THEN
            [s EXCEPT !.in_line_comment = TRUE, !.i = i + 1]
        ELSE IF next2("/", "*") THEN
            [s EXCEPT !.in_block_comment = TRUE, !.i = i + 1]
        ELSE IF ch = "\"" THEN
            [s EXCEPT !.in_string = TRUE, !.i = i + 1]
        ELSE
            [s EXCEPT !.code_mask[i] = TRUE,
                      !.depth = IF ch = "{" THEN s.depth + 1
                                ELSE IF ch = "}" THEN CloseDepth(s.depth)
                                ELSE s.depth,
                      !.i = i + 1]

ScanBody(text_, s, k) == IF k = s.i THEN ScanStep(text_, s) ELSE s

\* returns the record whose fields code_mask and depth_before are the two lists
scan_code_and_depth(text_) ==
    Loop(LAMBDA s, k : ScanBody(text_, s, k), ScanInit(text_), 0, Len(text_) - 1)
----------------------------------------------------------------------------
(* The string literals of the source                                       *)

S_default_mode == <<"d","e","f","a","u","l","t","_","m","o","d","e">>
S_keybinds == <<"k","e","y","b","i","n","d","s">>
S_locked == <<"l","o","c","k","e","d">>
S_tmux == <<"t","m","u","x">>
S_normal == <<"n","o","r","m","a","l">>
S_shared_except == <<"s","h","a","r","e","d","_","e","x","c","e","p","t">>
S_bind == <<"b","i","n","d">>
S_SwitchToMode == <<"S","w","i","t","c","h","T","o","M","o","d","e">>
S_Write2 == <<"W","r","i","t","e"," ","2">>
S_Tmux == <<"T","m","u","x">>
S_Locked == <<"L","o","c","k","e","d">>
S_Normal == <<"N","o","r","m","a","l">>
S_CtrlB == <<"C","t","r","l"," ","b">>
S_Enter == <<"E","n","t","e","r">>
S_Esc == <<"E","s","c">>
NL == <<"\n">>
SP == <<" ">>
Indent4 == <<" "," "," "," ">>

Quoted(s) == <<"\"">> \o s \o <<"\"">>

\* default_mode "locked"
DefaultModeLockedStmt == S_default_mode \o SP \o Quoted(S_locked)

\* SwitchToMode "<mode>";
SwitchTo(mode) == S_SwitchToMode \o SP \o Quoted(mode) \o <<";">>

\* bind "Ctrl b" { SwitchToMode "Tmux"; }
BindCtrlBTmux ==
    S_bind \o SP \o Quoted(S_CtrlB) \o <<" ","{"," ">> \o SwitchTo(S_Tmux)
    \o <<" ","}">>

\* bind "Ctrl b" { Write 2; SwitchToMode "Locked"; }
BindCtrlBWriteLocked ==
    S_bind \o SP \o Quoted(S_CtrlB) \o <<" ","{"," ">> \o S_Write2 \o <<";"," ">>
    \o SwitchTo(S_Locked) \o <<" ","}">>

\* bind "Enter" "Esc" { SwitchToMode "Locked"; }
BindEnterEscLocked ==
    S_bind \o SP \o Quoted(S_Enter) \o SP \o Quoted(S_Esc) \o <<" ","{"," ">>
    \o SwitchTo(S_Locked) \o <<" ","}">>

\* shared_except "normal" "locked"
SharedExceptHeader ==
    S_shared_except \o SP \o Quoted(S_normal) \o SP \o Quoted(S_locked)

\* the snippet `{mode_indent}<header> {\n{bind_indent}<bind>\n{mode_indent}}\n`
ModeSnippet(mode_indent, bind_indent, header, bind) ==
    mode_indent \o header \o <<" ","{","\n">> \o bind_indent \o bind \o NL
    \o mode_indent \o <<"}","\n">>

----------------------------------------------------------------------------
(* Lines                                                                   *)

\* the list of (start, end) pairs iter_line_ranges yields, as records: the
\* scan for the next newline, one offset k at a time, with k = len(text) the
\* final `yield start, len(text)`
iter_line_ranges(text_) ==
    Loop(LAMBDA s, k :
             IF k = Len(text_)
             THEN Append(s.out, [start |-> s.start, end |-> k])
             ELSE IF At(text_, k) = "\n"
                  THEN [start |-> k + 1,
                        out |-> Append(s.out, [start |-> s.start, end |-> k])]
                  ELSE s,
         [start |-> 0, out |-> <<>>], 0, Len(text_))

\* text.rfind(newline, 0, index) + 1
line_start_index(text_, index) ==
    LastOf({k \in 0..(Min(index, Len(text_)) - 1) : At(text_, k) = "\n"}, -1) + 1

\* the offset after the run of spaces and tabs that starts at offset start
SkipBlanks(text_, start) ==
    FirstOf({k \in start..(Len(text_) - 1) : At(text_, k) \notin {" ", "\t"}},
            Max(start, Len(text_)))

\* the offset after the run of whitespace that starts at offset start
SkipSpaces(text_, start) ==
    FirstOf({k \in start..(Len(text_) - 1) : ~IsSpace(At(text_, k))},
            Max(start, Len(text_)))

line_indent(text_, index) ==
    Slice(text_, line_start_index(text_, index),
          SkipBlanks(text_, line_start_index(text_, index)))

----------------------------------------------------------------------------
(* Quoted arguments: the regular expression QUOTED_RE                      *)

\* the offset just after the match of QUOTED_RE that starts at the quote at
\* offset q of s, or -1 when there is none (the dot does not match a newline)
MatchQuotedAt(s, q) ==
    Loop(LAMBDA st, k :
             IF st.done \/ k # st.j THEN st
             ELSE IF At(s, k) = "\"" THEN [st EXCEPT !.ret = k + 1, !.done = TRUE]
             ELSE IF At(s, k) = "\\"
                  THEN IF k + 1 < Len(s) /\ At(s, k + 1) # "\n"
                       THEN [st EXCEPT !.j = k + 2]
                       ELSE [st EXCEPT !.done = TRUE]
             ELSE [st EXCEPT !.j = k + 1],
         [j |-> q + 1, ret |-> -1, done |-> FALSE], q + 1, Len(s) - 1).ret

\* finditer at the quote at offset k, where the match attempt ended at e
QuotedFrom(s, st, k, e) ==
    IF e = -1 THEN [st EXCEPT !.i = k + 1]
    ELSE [i |-> e, out |-> Append(st.out, Slice(s, k + 1, e - 1))]

\* [m.group(1) for m in QUOTED_RE.finditer(text)]
extract_quoted_strings(s) ==
    Loop(LAMBDA st, k :
             IF k # st.i THEN st
             ELSE IF At(s, k) # "\"" THEN [st EXCEPT !.i = k + 1]
             ELSE QuotedFrom(s, st, k, MatchQuotedAt(s, k)),
         [i |-> 0, out |-> <<>>], 0, Len(s) - 1).out

\* set(seq)
SetOf(seq) == {seq[k] : k \in 1..Len(seq)}

\* a variant of block_has_args_normal_locked that compares the letter case
block_has_args_normal_locked_exact(header) ==
    {S_normal, S_locked} \subseteq SetOf(extract_quoted_strings(header))

block_has_args_normal_locked(header) ==
    {S_normal, S_locked}
        \subseteq {LowerStr(v) : v \in SetOf(extract_quoted_strings(header))}

----------------------------------------------------------------------------
(* Block locator.  The pair (code_mask, depth_before) that                 *)
(* scan_code_and_depth returns is handed on as the one record sc.          *)

\* Optional[Block] that is None
NoBlock ==
    [keyword |-> <<>>, keyword_pos |-> -1, open_brace |-> -1,
     close_brace |-> -1, depth |-> -1]

\* a variant of find_matching_brace that does not count the braces between
find_matching_brace_first_close(text_, open_brace, code_mask) ==
    IF open_brace < 0 \/ open_brace >= Len(text_) \/ At(text_, open_brace) # "{"
    THEN -1
    ELSE FirstOf({i \in (open_brace + 1)..(Len(text_) - 1) :
                     code_mask[i] /\ At(text_, i) = "}"}, -1)

find_matching_brace(text_, open_brace, code_mask) ==
    IF open_brace < 0 \/ open_brace >= Len(text_) \/ At(text_, open_brace) # "{"
    THEN -1
    ELSE Loop(LAMBDA s, i :
                  IF s.ret # -1 \/ ~code_mask[i] THEN s
                  ELSE IF At(text_, i) = "{" THEN [s EXCEPT !.depth = s.depth + 1]
                  ELSE IF At(text_, i) = "}"
                       THEN IF s.depth - 1 = 0
                            THEN [depth |-> 0, ret |-> i]
                            ELSE [s EXCEPT !.depth = s.depth - 1]
                  ELSE s,
              [depth |-> 1, ret |-> -1], open_brace + 1, Len(text_) - 1).ret

\* a variant of find_next_open_brace_same_depth that reads on past a ;
find_next_open_brace_past_statement(text_, code_mask, depth_before, start, end, expected_depth) ==
    FirstOf({i \in start..(end - 1) :
                /\ code_mask[i]
                /\ At(text_, i) = "{"
                /\ depth_before[i] = expected_depth}, -1)

find_next_open_brace_same_depth(text_, code_mask, depth_before, start, end, expected_depth) ==
    LET hit == FirstOf({i \in start..(end - 1) :
                           /\ code_mask[i]
                           /\ At(text_, i) \in {"{", ";"}
                           /\ depth_before[i] = expected_depth}, -1)
    IN  IF hit # -1 /\ At(text_, hit) = "{" THEN hit ELSE -1

\* header_predicate=None
NoPredicate == "None"

\* header_predicate=block_has_args_normal_locked, the one callable ever passed
ArgsNormalLocked == "block_has_args_normal_locked"

\* header_predicate is None or header_predicate(header)
HeaderAccepted(header_predicate, header) ==
    \/ header_predicate = NoPredicate
    \/ header_predicate = ArgsNormalLocked /\ block_has_args_normal_locked(header)

\* a variant of AppendBlock that keeps a block closed at or after the range end
AppendBlockBeyondEnd(blocks, text_, sc, keyword, pos, end, open_brace, close_brace, header_predicate) ==
    IF close_brace = -1 THEN blocks
    ELSE IF ~HeaderAccepted(header_predicate, Slice(text_, pos, open_brace))
    THEN blocks
    ELSE Append(blocks,
                [keyword |-> keyword, keyword_pos |-> pos,
                 open_brace |-> open_brace, close_brace |-> close_brace,
                 depth |-> sc.depth_before[pos]])

\* the end of the loop body of find_blocks, from `if close_brace is None` on
AppendBlock(blocks, text_, sc, keyword, pos, end, open_brace, close_brace, header_predicate) ==
    IF close_brace = -1 \/ close_brace >= end THEN blocks
    ELSE IF ~HeaderAccepted(header_predicate, Slice(text_, pos, open_brace))
    THEN blocks
    ELSE Append(blocks,
                [keyword |-> keyword, keyword_pos |-> pos,
                 open_brace |-> open_brace, close_brace |-> close_brace,
                 depth |-> sc.depth_before[pos]])

\* the loop body of find_blocks for the offset pos; target_depth is -1 for None
FindBlocksAt(blocks, text_, sc, keyword, pos, end, target_depth, header_predicate) ==
    IF ~KeywordAt(text_, keyword, pos, end) THEN blocks
    ELSE IF ~sc.code_mask[pos] THEN blocks
    ELSE IF target_depth # -1 /\ sc.depth_before[pos] # target_depth THEN blocks
    ELSE LET open_brace == find_next_open_brace_same_depth(
                               text_, sc.code_mask, sc.depth_before,
                               pos + Len(keyword), end, sc.depth_before[pos])
         IN  IF open_brace = -1 THEN blocks
             ELSE AppendBlock(blocks, text_, sc, keyword, pos, end, open_brace,
                              find_matching_brace(text_, open_brace, sc.code_mask),
                              header_predicate)

find_blocks(text_, sc, keyword, start, end, target_depth, header_predicate) ==
    Loop(LAMBDA blocks, pos :
             FindBlocksAt(blocks, text_, sc, keyword, pos, end, target_depth,
                          header_predicate),
         <<>>, start, end - Len(keyword))

\* blocks[0] if blocks else None
FirstBlock(blocks) == IF blocks # <<>> THEN blocks[1] ELSE NoBlock

find_first_block(text_, sc, keyword, start, end, target_depth, header_predicate) ==
    FirstBlock(find_blocks(text_, sc, keyword, start, end, target_depth,
                           header_predicate))

----------------------------------------------------------------------------
(* Indentation and insertion                                               *)

\* the list splitlines returns once the scan st of s is over
LinesAfter(s, st) ==
    IF st.start < Len(s)
    THEN Append(st.out, Slice(s, st.start, Len(s)))
    ELSE st.out

\* body.splitlines(): the lines of s, broken at \n, \r and \r\n
SplitLines(s) ==
    LinesAfter(s,
        Loop(LAMBDA st, k :
                 IF At(s, k) = "\n" /\ k > 0 /\ At(s, k - 1) = "\r"
                 THEN [st EXCEPT !.start = k + 1]
                 ELSE IF At(s, k) \in {"\n", "\r"}
                      THEN [start |-> k + 1,
                            out |-> Append(st.out, Slice(s, st.start, k))]
                      ELSE st,
             [start |-> 0, out |-> <<>>], 0, Len(s) - 1))

\* whether line.strip() is empty or starts with //
BlankOrComment(line) ==
    LET j == SkipSpaces(line, 0)
    IN  \/ j >= Len(line)
        \/ (j + 1 < Len(line) /\ At(line, j) = "/" /\ At(line, j + 1) = "/")

\* line[: len(line) - len(line.lstrip(" \t"))]
Leading(line) == Slice(line, 0, SkipBlanks(line, 0))

\* the loop of infer_child_indent over the lines of the parent's body
ChildIndentIn(lines, parent_indent) ==
    LET hit == FirstOf({n \in 1..Len(lines) :
                           /\ ~BlankOrComment(lines[n])
                           /\ Len(Leading(lines[n])) > Len(parent_indent)}, -1)
    IN  IF hit # -1 THEN Leading(lines[hit]) ELSE parent_indent \o Indent4

infer_child_indent(text_, parent) ==
    ChildIndentIn(
        SplitLines(Slice(text_, parent.open_brace + 1, parent.close_brace)),
        line_indent(text_, parent.keyword_pos))

infer_indent_unit(parent_indent, child_indent) ==
    IF /\ Len(child_indent) > Len(parent_indent)
       /\ StartsWithAt(child_indent, parent_indent, 0)
    THEN Slice(child_indent, Len(parent_indent), Len(child_indent))
    ELSE Indent4

\* a variant of insert_before_close_brace that always starts a new line
insert_before_close_brace_newline_always(text_, close_brace, snippet) ==
    Slice(text_, 0, close_brace) \o NL \o snippet
    \o Slice(text_, close_brace, Len(text_))

insert_before_close_brace(text_, close_brace, snippet) ==
    Slice(text_, 0, close_brace)
    \o (IF close_brace = 0 \/ At(text_, close_brace - 1) = "\n" THEN <<>> ELSE NL)
    \o snippet
    \o Slice(text_, close_brace, Len(text_))

----------------------------------------------------------------------------
(* Step 1: default_mode                                                    *)

find_line_comment_start(line) ==
    Loop(LAMBDA s, i :
             IF s.ret # -1 THEN s
             ELSE IF s.in_string THEN
                 IF s.escaped THEN [s EXCEPT !.escaped = FALSE]
                 ELSE IF At(line, i) = "\\" THEN [s EXCEPT !.escaped = TRUE]
                 ELSE IF At(line, i) = "\"" THEN [s EXCEPT !.in_string = FALSE]
                 ELSE s
             ELSE IF At(line, i) = "\"" THEN [s EXCEPT !.in_string = TRUE]
             ELSE IF /\ At(line, i) = "/" /\ i + 1 < Len(line)
                     /\ At(line, i + 1) = "/"
                  THEN [s EXCEPT !.ret = i]
             ELSE s,
         [in_string |-> FALSE, escaped |-> FALSE, ret |-> -1],
         0, Len(line) - 1).ret

\* line[:comment_start], or line when there is no comment
CodePart(line, comment_start) ==
    IF comment_start = -1 THEN line ELSE Slice(line, 0, comment_start)

\* line[comment_start:], or the empty string when there is no comment
CommentPart(line, comment_start) ==
    IF comment_start = -1 THEN <<>> ELSE Slice(line, comment_start, Len(line))

\* whether the first pattern of replace_default_mode_line, default_mode then
\* whitespace then a quoted value, matches at offset p of code_part
DefaultModeValueAt(code_part, p) ==
    LET q == SkipSpaces(code_part, p + Len(S_default_mode))
    IN  /\ StartsWithAt(code_part, S_default_mode, p)
        /\ WordBoundary(code_part, p, Len(code_part))
        /\ q > p + Len(S_default_mode)
        /\ q < Len(code_part)
        /\ At(code_part, q) = "\""
        /\ MatchQuotedAt(code_part, q) # -1

\* the first substitution: groups 1 and 3 of the match at p kept, locked between
\* them; value_end is the offset just after the closing quote
SubstituteValue(code_part, value_start, value_end) ==
    Slice(code_part, 0, value_start) \o S_locked
    \o Slice(code_part, value_end - 1, Len(code_part))

\* the second substitution, of the keyword at p and the rest of the code part,
\* and the third alternative when there is no keyword (p = -1)
SubstituteStatement(code_part, p) ==
    IF p # -1 THEN Slice(code_part, 0, p) \o DefaultModeLockedStmt
    ELSE Leading(code_part) \o DefaultModeLockedStmt

\* `replaced` of replace_default_mode_line, where p is the offset of the
\* leftmost match of the first pattern, or -1
Replaced(code_part, p) ==
    IF p # -1
    THEN SubstituteValue(
             code_part,
             SkipSpaces(code_part, p + Len(S_default_mode)) + 1,
             MatchQuotedAt(code_part,
                           SkipSpaces(code_part, p + Len(S_default_mode))))
    ELSE SubstituteStatement(
             code_part,
             FirstOf({k \in 0..(Len(code_part) - 1) :
                         KeywordAt(code_part, S_default_mode, k, Len(code_part))},
                     -1))

\* the two re.subn calls and the fallback, on the code part of the line
ReplaceInCode(code_part) ==
    Replaced(code_part,
             FirstOf({p \in 0..(Len(code_part) - 1) :
                         DefaultModeValueAt(code_part, p)}, -1))

\* replace_default_mode_line once comment_start is known
ReplaceAround(line, comment_start) ==
    ReplaceInCode(CodePart(line, comment_start))
    \o CommentPart(line, comment_start)

replace_default_mode_line(line) ==
    ReplaceAround(line, find_line_comment_start(line))

\* the loop of first_code_line_start over code_mask
FirstCodeLine(text_, code_mask) ==
    LET index == FirstOf({k \in 0..(Len(text_) - 1) : code_mask[k]}, -1)
    IN  IF index # -1 THEN line_start_index(text_, index) ELSE Len(text_)

first_code_line_start(text_) ==
    FirstCodeLine(text_, scan_code_and_depth(text_).code_mask)

\* re.search(r"\bdefault_mode\b", line) for the line text[start:end]: the
\* offset in text of the first match, or -1
DefaultModeInLine(text_, start, end) ==
    FirstOf({p \in start..(end - 1) : KeywordAt(text_, S_default_mode, p, end)},
            -1)

\* whether the first default_mode of the line r is live code at depth 0
LiveTopLevelDefaultMode(text_, sc, r) ==
    LET pos == DefaultModeInLine(text_, r.start, r.end)
    IN  pos # -1 /\ sc.code_mask[pos] /\ sc.depth_before[pos] = 0

\* target_lines of ensure_default_mode_locked
TargetLines(text_, sc, lines) ==
    SelectSeq(lines, LAMBDA r : LiveTopLevelDefaultMode(text_, sc, r))

\* text[:start] + replace_default_mode_line(text[start:end]) + text[end:]
ReplaceLine(t, r) ==
    Slice(t, 0, r.start)
    \o replace_default_mode_line(Slice(t, r.start, r.end))
    \o Slice(t, r.end, Len(t))

\* text[:insert_at] + the statement and a newline + text[insert_at:]
InsertDefaultMode(text_, insert_at) ==
    Slice(text_, 0, insert_at) \o DefaultModeLockedStmt \o NL
    \o Slice(text_, insert_at, Len(text_))

\* ensure_default_mode_locked from `if target_lines` on
RewriteOrInsert(text_, target_lines) ==
    IF target_lines # <<>>
    THEN \* for start, end in reversed(target_lines)
         Loop(LAMBDA t, k : ReplaceLine(t, target_lines[Len(target_lines) + 1 - k]),
              text_, 1, Len(target_lines))
    ELSE InsertDefaultMode(text_, first_code_line_start(text_))

ensure_default_mode_locked(text_) ==
    RewriteOrInsert(
        text_,
        TargetLines(text_, scan_code_and_depth(text_), iter_line_ranges(text_)))

----------------------------------------------------------------------------
(* Step 2: the keybinds block, and the lookups the later steps share       *)

get_keybinds_block(text_) ==
    find_first_block(text_, scan_code_and_depth(text_), S_keybinds,
                     0, Len(text_), 0, NoPredicate)

\* the canonical block that ensure_keybinds_block appends
KeybindsSnippet ==
    S_keybinds \o <<" ","{","\n">>
    \o ModeSnippet(Indent4, Indent4 \o Indent4, S_locked, BindCtrlBTmux)
    \o ModeSnippet(Indent4, Indent4 \o Indent4, S_tmux, BindCtrlBWriteLocked)
    \o ModeSnippet(Indent4, Indent4 \o Indent4, SharedExceptHeader,
                   BindEnterEscLocked)
    \o <<"}","\n">>

\* a variant of ensure_keybinds_block that puts a newline before the block
\* whatever the text ends with
ensure_keybinds_block_newline_always(text_) ==
    IF get_keybinds_block(text_) # NoBlock THEN text_
    ELSE text_ \o NL \o KeybindsSnippet

ensure_keybinds_block(text_) ==
    IF get_keybinds_block(text_) # NoBlock THEN text_
    ELSE (IF text_ # <<>> /\ text_[Len(text_)] # "\n" THEN text_ \o NL ELSE text_)
         \o KeybindsSnippet

find_mode_block(text_, keybinds, mode_keyword) ==
    find_first_block(text_, scan_code_and_depth(text_), mode_keyword,
                     keybinds.open_brace + 1, keybinds.close_brace,
                     keybinds.depth + 1, NoPredicate)

find_shared_except_normal_locked_block(text_, keybinds) ==
    find_first_block(text_, scan_code_and_depth(text_), S_shared_except,
                     keybinds.open_brace + 1, keybinds.close_brace,
                     keybinds.depth + 1, ArgsNormalLocked)

find_bind_blocks(text_, parent) ==
    find_blocks(text_, scan_code_and_depth(text_), S_bind,
                parent.open_brace + 1, parent.close_brace,
                parent.depth + 1, NoPredicate)

\* s[i:i+len(p)].lower() == p.lower()
MatchCI(s, p, i) ==
    /\ i + Len(p) <= Len(s)
    /\ \A k \in 1..Len(p) : Lower(s[i + k]) = Lower(p[k])

\* whether \bSwitchToMode\s+"<mode>" matches at offset p of actions, letter
\* case ignored
SwitchToModeAt(actions, mode, p) ==
    /\ MatchCI(actions, S_SwitchToMode, p)
    /\ WordBoundary(actions, p, Len(actions))
    /\ SkipSpaces(actions, p + Len(S_SwitchToMode)) > p + Len(S_SwitchToMode)
    /\ MatchCI(actions, Quoted(mode),
               SkipSpaces(actions, p + Len(S_SwitchToMode)))

\* re.search(rf'\bSwitchToMode\s+"{mode}"', actions, flags=re.IGNORECASE)
\* is not None
SwitchToModeSearch(actions, mode) ==
    \E p \in 0..(Len(actions) - 1) : SwitchToModeAt(actions, mode, p)

\* set(extract_quoted_strings(text[bind_block.keyword_pos:bind_block.open_brace]))
BindKeys(text_, bind_block) ==
    SetOf(extract_quoted_strings(
              Slice(text_, bind_block.keyword_pos, bind_block.open_brace)))

\* text[bind_block.open_brace + 1 : bind_block.close_brace]
BindActions(text_, bind_block) ==
    Slice(text_, bind_block.open_brace + 1, bind_block.close_brace)

bind_has_key_and_mode(text_, bind_block, key, mode) ==
    /\ key \in BindKeys(text_, bind_block)
    /\ SwitchToModeSearch(BindActions(text_, bind_block), mode)

bind_has_keys_enter_esc_and_locked(text_, bind_block) ==
    /\ {S_Enter, S_Esc} \subseteq BindKeys(text_, bind_block)
    /\ SwitchToModeSearch(BindActions(text_, bind_block), S_Locked)

bind_has_key(text_, bind_block, key) == key \in BindKeys(text_, bind_block)

----------------------------------------------------------------------------
(* SwitchToMode argument rewriting                                         *)

\* the inner loop on k of find_switch_mode_value_ranges: the offset of the
\* unescaped quote that closes the string opened at offset j of segment, or
\* len(segment) when there is none
ClosingQuote(segment, j) ==
    Loop(LAMBDA s, k :
             IF s.found THEN s
             ELSE IF s.esc THEN [s EXCEPT !.esc = FALSE]
             ELSE IF At(segment, k) = "\\" THEN [s EXCEPT !.esc = TRUE]
             ELSE IF At(segment, k) = "\"" THEN [s EXCEPT !.k = k, !.found = TRUE]
             ELSE s,
         [esc |-> FALSE, k |-> Len(segment), found |-> FALSE],
         j + 1, Len(segment) - 1).k

\* the branch `if segment[j] == quote` of the loop: the string opened at
\* offset j stopped the inner loop at offset k
\* a variant of QuotedModeAt whose range starts at the opening quote
QuotedModeAtFromQuote(segment, mode, s, j, k) ==
    IF k < Len(segment)
    THEN IF LowerStr(Slice(segment, j + 1, k)) = LowerStr(mode)
         THEN [s EXCEPT !.ranges = Append(@, <<j, k>>), !.i = k + 1]
         ELSE [s EXCEPT !.i = k + 1]
    ELSE [s EXCEPT !.i = s.i + 1]

QuotedModeAt(segment, mode, s, j, k) ==
    IF k < Len(segment)
    THEN IF LowerStr(Slice(segment, j + 1, k)) = LowerStr(mode)
         THEN [s EXCEPT !.ranges = Append(@, <<j + 1, k>>), !.i = k + 1]
         ELSE [s EXCEPT !.i = k + 1]
    ELSE [s EXCEPT !.i = s.i + 1]

\* one iteration of the while loop of find_switch_mode_value_ranges, at i = s.i
RangesStep(segment, mode, s) ==
    LET i  == s.i
        ch == At(segment, i)
        next2(c1, c2) ==
            i + 1 < Len(segment) /\ ch = c1 /\ At(segment, i + 1) = c2
        j  == SkipSpaces(segment, i + Len(S_SwitchToMode))
    IN  IF s.in_line_comment THEN
            IF ch = "\n" THEN [s EXCEPT !.in_line_comment = FALSE, !.i = i + 1]
            ELSE [s EXCEPT !.i = i + 1]
        ELSE IF s.in_block_comment THEN
            IF next2("*", "/") THEN [s EXCEPT !.i = i + 2]
            ELSE [s EXCEPT !.i = i + 1]
        ELSE IF s.in_string THEN
            IF s.escaped THEN [s EXCEPT !.escaped = FALSE, !.i = i + 1]
            ELSE IF ch = "\\" THEN [s EXCEPT !.escaped = TRUE, !.i = i + 1]
            ELSE IF ch = "\"" THEN [s EXCEPT !.in_string = FALSE, !.i = i + 1]
            ELSE [s EXCEPT !.i = i + 1]
        ELSE IF next2("/", "/") THEN
            [s EXCEPT !.in_line_comment = TRUE, !.i = i + 2]
        ELSE IF next2("/", "*") THEN
            [s EXCEPT !.in_block_comment = TRUE, !.i = i + 2]
        ELSE IF ch = "\"" THEN
            [s EXCEPT !.in_string = TRUE, !.i = i + 1]
        ELSE IF /\ StartsWithAt(segment, S_SwitchToMode, i)
                /\ j < Len(segment) /\ At(segment, j) = "\""
             THEN QuotedModeAt(segment, mode, s, j, ClosingQuote(segment, j))
        ELSE [s EXCEPT !.i = i + 1]

\* the list of (value_start, value_end) pairs; every caller passes a mode
find_switch_mode_value_ranges(segment, mode) ==
    Loop(LAMBDA s, k : IF k = s.i THEN RangesStep(segment, mode, s) ELSE s,
         [i |-> 0, in_string |-> FALSE, in_line_comment |-> FALSE,
          in_block_comment |-> FALSE, escaped |-> FALSE, ranges |-> <<>>],
         0, Len(segment) - 1).ranges

\* a variant of ReplaceRange that takes the two quotes with the value
ReplaceRangeWithQuotes(updated_body, range, to_mode) ==
    Slice(updated_body, 0, range[1] - 1) \o to_mode
    \o Slice(updated_body, range[2] + 1, Len(updated_body))

\* updated_body[:value_start] + to_mode + updated_body[value_end:]
ReplaceRange(updated_body, range, to_mode) ==
    Slice(updated_body, 0, range[1]) \o to_mode
    \o Slice(updated_body, range[2], Len(updated_body))

\* replace_switch_mode_in_block_body from `if not ranges` on; returns the pair
\* <<updated, len(ranges)>>
ReplaceRanges(text_, start, end, ranges, to_mode) ==
    IF ranges = <<>> THEN <<text_, 0>>
    ELSE <<Slice(text_, 0, start)
           \o \* for value_start, value_end in reversed(ranges)
              Loop(LAMBDA b, k :
                       ReplaceRange(b, ranges[Len(ranges) + 1 - k], to_mode),
                   Slice(text_, start, end), 1, Len(ranges))
           \o Slice(text_, end, Len(text_)),
           Len(ranges)>>

replace_switch_mode_in_block_body(text_, block, from_mode, to_mode) ==
    ReplaceRanges(
        text_, block.open_brace + 1, block.close_brace,
        find_switch_mode_value_ranges(
            Slice(text_, block.open_brace + 1, block.close_brace), from_mode),
        to_mode)

count_switch_mode_in_block_body(text_, block, mode) ==
    Len(find_switch_mode_value_ranges(
            Slice(text_, block.open_brace + 1, block.close_brace), mode))

----------------------------------------------------------------------------
(* Steps 3 to 5.  A step returns Ok(text) or, where the source raises      *)
(* ConfigEditError, Raise(message).  The statements of a step that follow  *)
(* a lookup are an operator of their own, which takes the block found.     *)

Ok(t) == [raised |-> FALSE, text |-> t, msg |-> <<>>]

Raise(m) == [raised |-> TRUE, text |-> <<>>, msg |-> m]

\* the snippet of a missing mode block: mode_indent, unit and bind_indent
NewModeBlock(mode_indent, parent_indent, header, bind) ==
    ModeSnippet(mode_indent,
                mode_indent \o infer_indent_unit(parent_indent, mode_indent),
                header, bind)

\* the branch `if <mode block> is None` that inserts the block into keybinds
InsertModeBlock(text_, keybinds, header, bind) ==
    insert_before_close_brace(
        text_, keybinds.close_brace,
        NewModeBlock(infer_child_indent(text_, keybinds),
                     line_indent(text_, keybinds.keyword_pos), header, bind))

\* the last three statements of a step: the bind inserted into block
InsertBind(text_, block, bind) ==
    insert_before_close_brace(text_, block.close_brace,
                              infer_child_indent(text_, block) \o bind \o NL)

\* any(bind_has_key_and_mode(text, b, key, mode) for b in binds)
AnyKeyAndMode(text_, binds, key, mode) ==
    \E k \in 1..Len(binds) : bind_has_key_and_mode(text_, binds[k], key, mode)

\* any(bind_has_key(text, b, key) for b in binds)
AnyKey(text_, binds, key) ==
    \E k \in 1..Len(binds) : bind_has_key(text_, binds[k], key)

\* any(bind_has_keys_enter_esc_and_locked(text, b) for b in binds)
AnyEnterEscLocked(text_, binds) ==
    \E k \in 1..Len(binds) : bind_has_keys_enter_esc_and_locked(text_, binds[k])

\* ensure_locked_ctrl_b_to_tmux from `if locked is None` on
LockedBind(text_, keybinds, locked) ==
    IF locked = NoBlock
    THEN Ok(InsertModeBlock(text_, keybinds, S_locked, BindCtrlBTmux))
    ELSE IF AnyKeyAndMode(text_, find_bind_blocks(text_, locked), S_CtrlB, S_Tmux)
    THEN Ok(text_)
    ELSE Ok(InsertBind(text_, locked, BindCtrlBTmux))

\* ensure_locked_ctrl_b_to_tmux from `if keybinds is None` on
LockedIn(text_, keybinds) ==
    IF keybinds = NoBlock
    THEN Raise(<<"keybinds block missing after ensure_keybinds_block">>)
    ELSE LockedBind(text_, keybinds, find_mode_block(text_, keybinds, S_locked))

ensure_locked_ctrl_b_to_tmux(text_) ==
    LockedIn(text_, get_keybinds_block(text_))

\* ensure_tmux_block_locked_returns from the last `if tmux is None` on
TmuxBind(text_, tmux) ==
    IF tmux = NoBlock THEN Raise(<<"tmux block missing after tmux edits">>)
    ELSE IF AnyKey(text_, find_bind_blocks(text_, tmux), S_CtrlB) THEN Ok(text_)
    ELSE Ok(InsertBind(text_, tmux, BindCtrlBWriteLocked))

\* ... from the `if keybinds is None` that follows the rewrite on
TmuxAgain(text_, keybinds) ==
    IF keybinds = NoBlock THEN Raise(<<"keybinds block missing after tmux edits">>)
    ELSE TmuxBind(text_, find_mode_block(text_, keybinds, S_tmux))

\* ... from `keybinds = get_keybinds_block(text)` after the rewrite on
TmuxRewritten(text_) == TmuxAgain(text_, get_keybinds_block(text_))

\* ... from `text, _ = replace_switch_mode_in_block_body(...)` on
TmuxRewrite(text_, tmux) ==
    TmuxRewritten(
        replace_switch_mode_in_block_body(text_, tmux, S_Normal, S_Locked)[1])

\* ... the end of the branch that created the block
TmuxLocated(text_, tmux) ==
    IF tmux = NoBlock
    THEN Raise(<<"Failed to locate tmux block after creation">>)
    ELSE TmuxRewrite(text_, tmux)

TmuxCreatedIn(text_, keybinds) ==
    IF keybinds = NoBlock THEN Raise(<<"Failed to create tmux block">>)
    ELSE TmuxLocated(text_, find_mode_block(text_, keybinds, S_tmux))

\* ... from `keybinds = get_keybinds_block(text)` in that branch on
TmuxCreated(text_) == TmuxCreatedIn(text_, get_keybinds_block(text_))

\* ... from the first `if tmux is None` on
TmuxFoundOrMissing(text_, keybinds, tmux) ==
    IF tmux # NoBlock THEN TmuxRewrite(text_, tmux)
    ELSE TmuxCreated(InsertModeBlock(text_, keybinds, S_tmux,
                                     BindCtrlBWriteLocked))

\* ... from the first `if keybinds is None` on
TmuxIn(text_, keybinds) ==
    IF keybinds = NoBlock
    THEN Raise(<<"keybinds block missing after ensure_keybinds_block">>)
    ELSE TmuxFoundOrMissing(text_, keybinds,
                            find_mode_block(text_, keybinds, S_tmux))

ensure_tmux_block_locked_returns(text_) ==
    TmuxIn(text_, get_keybinds_block(text_))

\* ensure_shared_except_normal_locked_returns from the last `if shared is
\* None` on
SharedBind(text_, shared) ==
    IF shared = NoBlock
    THEN Raise(<<"shared_except \"normal\" \"locked\" block missing after shared edits">>)
    ELSE IF AnyEnterEscLocked(text_, find_bind_blocks(text_, shared))
    THEN Ok(text_)
    ELSE Ok(InsertBind(text_, shared, BindEnterEscLocked))

\* ... from the second `if keybinds is None` on
SharedAgain(text_, keybinds) ==
    IF keybinds = NoBlock
    THEN Raise(<<"keybinds block missing after shared edits">>)
    ELSE SharedBind(text_, find_shared_except_normal_locked_block(text_, keybinds))

\* ... from `keybinds = get_keybinds_block(text)` after the rewrite on
SharedRewritten(text_) == SharedAgain(text_, get_keybinds_block(text_))

\* ... from the first `if shared is None` on
SharedFoundOrMissing(text_, keybinds, shared) ==
    IF shared = NoBlock
    THEN Ok(InsertModeBlock(text_, keybinds, SharedExceptHeader,
                            BindEnterEscLocked))
    ELSE SharedRewritten(
             replace_switch_mode_in_block_body(text_, shared, S_Normal,
                                               S_Locked)[1])

\* ... from the first `if keybinds is None` on
SharedIn(text_, keybinds) ==
    IF keybinds = NoBlock
    THEN Raise(<<"keybinds block missing after ensure_keybinds_block">>)
    ELSE SharedFoundOrMissing(
             text_, keybinds,
             find_shared_except_normal_locked_block(text_, keybinds))

ensure_shared_except_normal_locked_returns(text_) ==
    SharedIn(text_, get_keybinds_block(text_))

----------------------------------------------------------------------------
(* Validator                                                               *)

\* whether \bdefault_mode\s+"locked" matches at offset p of code_part
DefaultModeLockedAt(code_part, p) ==
    /\ StartsWithAt(code_part, S_default_mode, p)
    /\ WordBoundary(code_part, p, Len(code_part))
    /\ SkipSpaces(code_part, p + Len(S_default_mode)) > p + Len(S_default_mode)
    /\ StartsWithAt(code_part, Quoted(S_locked),
                    SkipSpaces(code_part, p + Len(S_default_mode)))

\* re.search(r'\bdefault_mode\s+"locked"', code_part)
DefaultModeLockedSearch(code_part) ==
    \E p \in 0..(Len(code_part) - 1) : DefaultModeLockedAt(code_part, p)

\* line if comment_start == -1 else line[:comment_start]
CodePartOf(line) == CodePart(line, find_line_comment_start(line))

\* the loop of has_top_level_default_mode_locked over the lines
AnyLineLocked(text_, sc, lines) ==
    \E n \in 1..Len(lines) :
        /\ LiveTopLevelDefaultMode(text_, sc, lines[n])
        /\ DefaultModeLockedSearch(
               CodePartOf(Slice(text_, lines[n].start, lines[n].end)))

has_top_level_default_mode_locked(text_) ==
    AnyLineLocked(text_, scan_code_and_depth(text_), iter_line_ranges(text_))

E_default_mode == "Missing top-level: default_mode \"locked\""
E_keybinds == "Missing keybinds block"
E_locked == "Missing locked block in keybinds"
E_locked_bind == "locked block missing: bind \"Ctrl b\" { SwitchToMode \"Tmux\"; }"
E_tmux == "Missing tmux block in keybinds"
E_tmux_normal == "tmux block still contains SwitchToMode \"Normal\""
E_shared == "Missing shared_except \"normal\" \"locked\" block"
E_shared_bind ==
    "shared_except \"normal\" \"locked\" missing Enter/Esc -> Locked binding"

\* the errors of validate_result about default_mode
DefaultModeErrors(text_) ==
    IF ~has_top_level_default_mode_locked(text_) THEN <<E_default_mode>> ELSE <<>>

\* ... about the locked block
LockedErrors(text_, locked) ==
    IF locked = NoBlock THEN <<E_locked>>
    ELSE IF ~AnyKeyAndMode(text_, find_bind_blocks(text_, locked), S_CtrlB, S_Tmux)
    THEN <<E_locked_bind>>
    ELSE <<>>

\* ... about the tmux block
TmuxErrors(text_, tmux) ==
    IF tmux = NoBlock THEN <<E_tmux>>
    ELSE IF count_switch_mode_in_block_body(text_, tmux, S_Normal) > 0
    THEN <<E_tmux_normal>>
    ELSE <<>>

\* ... about the shared_except block
SharedErrors(text_, shared) ==
    IF shared = NoBlock THEN <<E_shared>>
    ELSE IF ~AnyEnterEscLocked(text_, find_bind_blocks(text_, shared))
    THEN <<E_shared_bind>>
    ELSE <<>>

\* validate_result from `if keybinds is None` on
BlockErrors(text_, keybinds) ==
    IF keybinds = NoBlock THEN <<E_keybinds>>
    ELSE LockedErrors(text_, find_mode_block(text_, keybinds, S_locked))
         \o TmuxErrors(text_, find_mode_block(text_, keybinds, S_tmux))
         \o SharedErrors(text_,
                         find_shared_except_normal_locked_block(text_, keybinds))

validate_result(text_) ==
    DefaultModeErrors(text_) \o BlockErrors(text_, get_keybinds_block(text_))

----------------------------------------------------------------------------
(* transform_config                                                        *)

\* the message of the ConfigEditError that transform_config raises
PostEditValidationFailed(errs) == <<"Post-edit validation failed:">> \o errs

\* `raise ConfigEditError(...) if errors else return updated`
RaiseIfErrors(updated, errs) ==
    IF errs # <<>> THEN Raise(PostEditValidationFailed(errs)) ELSE Ok(updated)

\* the statements of transform_config from the call of validate_result on,
\* unless a step raised
Validated(r) ==
    IF r.raised THEN r ELSE RaiseIfErrors(r.text, validate_result(r.text))

\* updated = ensure_shared_except_normal_locked_returns(updated), unless an
\* earlier step raised
ThenShared(r) ==
    IF r.raised THEN r ELSE ensure_shared_except_normal_locked_returns(r.text)

\* updated = ensure_tmux_block_locked_returns(updated), unless the earlier
\* step raised
ThenTmux(r) ==
    IF r.raised THEN r ELSE ensure_tmux_block_locked_returns(r.text)

transform_config(text_) ==
    Validated(
        ThenShared(
            ThenTmux(
                ensure_locked_ctrl_b_to_tmux(
                    ensure_keybinds_block(
                        ensure_default_mode_locked(text_))))))

----------------------------------------------------------------------------
(* The documents the pipeline is run on.  A document is the concatenation, *)
(* in catalogue order, of at most MaxParts parts; the parts that are mode  *)
(* blocks are the children of a keybinds block when the document has one.  *)

MaxParts == 2

\* | default_mode "normal" // keep
Part_default_normal_keep ==
    <<"d","e","f","a","u","l","t","_","m","o","d","e"," ","\"","n","o","r",
      "m","a","l","\""," ","/","/"," ","k","e","e","p","\n">>

\* | theme "default_mode"; default_mode "normal"
Part_theme_then_default ==
    <<"t","h","e","m","e"," ","\"","d","e","f","a","u","l","t","_","m","o",
      "d","e","\"",";"," ","d","e","f","a","u","l","t","_","m","o","d","e",
      " ","\"","n","o","r","m","a","l","\"","\n">>

\* | default_mode normal; pane "a" {
Part_default_bare_pane ==
    <<"d","e","f","a","u","l","t","_","m","o","d","e"," ","n","o","r","m","a",
      "l",";"," ","p","a","n","e"," ","\"","a","\""," ","{","\n">>

\* |     default_mode "compact"
\* | }
Part_default_nested ==
    <<" "," "," "," ","d","e","f","a","u","l","t","_","m","o","d","e"," ",
      "\"","c","o","m","p","a","c","t","\"","\n","}","\n">>

\* |     normal {
\* |         bind "a" { SwitchToMode "Locked"; }
\* |     }
Part_normal_child ==
    <<" "," "," "," ","n","o","r","m","a","l"," ","{","\n"," "," "," "," ",
      " "," "," "," ","b","i","n","d"," ","\"","a","\""," ","{"," ","S","w",
      "i","t","c","h","T","o","M","o","d","e"," ","\"","L","o","c","k","e",
      "d","\"",";"," ","}","\n"," "," "," "," ","}","\n">>

\* | normal {
\* |     bind "a" { Quit; }
\* | }
Part_normal_flush ==
    <<"n","o","r","m","a","l"," ","{","\n"," "," "," "," ","b","i","n","d",
      " ","\"","a","\""," ","{"," ","Q","u","i","t",";"," ","}","\n","}","\n">>

\* |     tmux {
\* |         bind "a" { SwitchToMode "Normal"; }
\* |         bind "s" { WriteChars "SwitchToMode Normal"; }
\* |     }
Part_tmux_child ==
    <<" "," "," "," ","t","m","u","x"," ","{","\n"," "," "," "," "," "," ",
      " "," ","b","i","n","d"," ","\"","a","\""," ","{"," ","S","w","i","t",
      "c","h","T","o","M","o","d","e"," ","\"","N","o","r","m","a","l","\"",
      ";"," ","}","\n"," "," "," "," "," "," "," "," ","b","i","n","d"," ",
      "\"","s","\""," ","{"," ","W","r","i","t","e","C","h","a","r","s"," ",
      "\"","S","w","i","t","c","h","T","o","M","o","d","e"," ","N","o","r",
      "m","a","l","\"",";"," ","}","\n"," "," "," "," ","}","\n">>

\* |     locked {
\* |         bind "Ctrl b" { // SwitchToMode "Tmux"
\* |         }
\* |     }
Part_locked_commented ==
    <<" "," "," "," ","l","o","c","k","e","d"," ","{","\n"," "," "," "," ",
      " "," "," "," ","b","i","n","d"," ","\"","C","t","r","l"," ","b","\"",
      " ","{"," ","/","/"," ","S","w","i","t","c","h","T","o","M","o","d","e",
      " ","\"","T","m","u","x","\"","\n"," "," "," "," "," "," "," "," ","}",
      "\n"," "," "," "," ","}","\n">>

\* | // c
Part_comment_tail ==
    <<"/","/"," ","c">>

\* | theme "dark"
Part_theme_tail ==
    <<"t","h","e","m","e"," ","\"","d","a","r","k","\"">>

\* | keybinds {
KeybindsOpen ==
    <<"k","e","y","b","i","n","d","s"," ","{","\n">>

\* | }
KeybindsClose ==
    <<"}","\n">>

HeadParts ==
    <<Part_default_normal_keep, Part_theme_then_default,
      Part_default_bare_pane, Part_default_nested>>

ChildParts ==
    <<Part_normal_child, Part_normal_flush, Part_tmux_child,
      Part_locked_commented>>

TailParts == <<Part_comment_tail, Part_theme_tail>>

\* the concatenation of the parts of catalogue whose index is in sel
Join(catalogue, sel) ==
    Loop(LAMBDA acc, k : IF k \in sel THEN acc \o catalogue[k] ELSE acc,
         <<>>, 1, Len(catalogue))

Doc(heads, kb, children, tails) ==
    Join(HeadParts, heads)
    \o (IF kb THEN KeybindsOpen \o Join(ChildParts, children) \o KeybindsClose
        ELSE <<>>)
    \o Join(TailParts, tails)

Docs ==
    { Doc(h, kb, c, t) :
        <<h, kb, c, t>> \in
            { q \in (SUBSET DOMAIN HeadParts) \X BOOLEAN
                    \X (SUBSET DOMAIN ChildParts) \X (SUBSET DOMAIN TailParts) :
                /\ Cardinality(q[1]) + Cardinality(q[3]) + Cardinality(q[4])
                       <= MaxParts
                /\ (q[3] # {} => q[2]) } }

----------------------------------------------------------------------------
(* transform_config, one statement at a time, applied twice                *)

\* a file that does not exist, and the file that holds the bytes b
Absent == [exists |-> FALSE, bytes |-> <<>>]

File(b) == [exists |-> TRUE, bytes |-> b]

\* no exception is propagating
NoFailure == [kind |-> "none", msg |-> <<>>]

\* no scanner or block locator function has been applied
NoCall == [op |-> "none", open_brace |-> -1, start |-> 0, end |-> 0, target_depth |-> -1, parent |-> NoBlock]

ScanIdle ==
    /\ subject = <<>>
    /\ call = NoCall
    /\ result = <<>>

\* main() is not running
MainIdle ==
    /\ mpc = "idle"
    /\ fs = [target |-> Absent, tmp |-> Absent]
    /\ skip = FALSE
    /\ generated = FALSE
    /\ original_text = <<>>
    /\ updated_text = <<>>
    /\ changed = FALSE
    /\ content = <<>>
    /\ ret = "idle"
    /\ calls = [generate |-> 0, check |-> 0]
    /\ status = -1
    /\ stderr = <<>>
    /\ failure = NoFailure
    /\ pre = Absent
    /\ replacing = Absent
    /\ replaced = 0
    /\ observed = [seen |-> Absent, old |-> Absent, new |-> Absent]
    /\ emitted = <<>>

Init ==
    /\ pc = "ensure_default_mode_locked"
    /\ input \in Docs
    /\ text = input
    /\ prev = input
    /\ errors = <<>>
    /\ pass = 1
    /\ first = <<>>
    /\ MainIdle
    /\ ScanIdle

\* updated = ensure_default_mode_locked(updated)
EnsureDefaultModeLocked ==
    /\ pc = "ensure_default_mode_locked"
    /\ text' = ensure_default_mode_locked(text)
    /\ prev' = text
    /\ pc' = "ensure_keybinds_block"
    /\ UNCHANGED <<input, errors, pass, first>>
    /\ UNCHANGED <<main_vars, scan_vars>>

\* updated = ensure_keybinds_block(updated)
EnsureKeybindsBlock ==
    /\ pc = "ensure_keybinds_block"
    /\ text' = ensure_keybinds_block(text)
    /\ prev' = text
    /\ pc' = "ensure_locked_ctrl_b_to_tmux"
    /\ UNCHANGED <<input, errors, pass, first>>
    /\ UNCHANGED <<main_vars, scan_vars>>

\* the assignment `updated = <step>(updated)` whose call returned or raised r
Assign(r, next) ==
    /\ text' = IF r.raised THEN text ELSE r.text
    /\ errors' = IF r.raised THEN r.msg ELSE errors
    /\ pc' = IF r.raised THEN "raised" ELSE next
    /\ prev' = text
    /\ UNCHANGED <<input, pass, first>>
    /\ UNCHANGED <<main_vars, scan_vars>>

\* updated = ensure_locked_ctrl_b_to_tmux(updated)
EnsureLockedCtrlBToTmux ==
    /\ pc = "ensure_locked_ctrl_b_to_tmux"
    /\ Assign(ensure_locked_ctrl_b_to_tmux(text),
              "ensure_tmux_block_locked_returns")

\* updated = ensure_tmux_block_locked_returns(updated)
EnsureTmuxBlockLockedReturns ==
    /\ pc = "ensure_tmux_block_locked_returns"
    /\ Assign(ensure_tmux_block_locked_returns(text),
              "ensure_shared_except_normal_locked_returns")

\* updated = ensure_shared_except_normal_locked_returns(updated)
EnsureSharedExceptNormalLockedReturns ==
    /\ pc = "ensure_shared_except_normal_locked_returns"
    /\ Assign(ensure_shared_except_normal_locked_returns(text),
              "validate_result")

\* the outcome of `errors = validate_result(updated)` and of the test on it
Conclude(r) ==
    /\ errors' = r.msg
    /\ pc' = IF r.raised THEN "raised" ELSE "returned"
    /\ UNCHANGED <<input, text, prev, pass, first>>
    /\ UNCHANGED <<main_vars, scan_vars>>

\* errors = validate_result(updated); raise if errors else return updated
ValidateResult ==
    /\ pc = "validate_result"
    /\ Conclude(RaiseIfErrors(text, validate_result(text)))

\* the second application: transform_config(transform_config(t))
ApplyAgain ==
    /\ pc = "returned"
    /\ pass = 1
    /\ first' = text
    /\ input' = text
    /\ prev' = text
    /\ pass' = 2
    /\ pc' = "ensure_default_mode_locked"
    /\ UNCHANGED <<text, errors>>
    /\ UNCHANGED <<main_vars, scan_vars>>

Next ==
    \/ EnsureDefaultModeLocked
    \/ EnsureKeybindsBlock
    \/ EnsureLockedCtrlBToTmux
    \/ EnsureTmuxBlockLockedReturns
    \/ EnsureSharedExceptNormalLockedReturns
    \/ ValidateResult
    \/ ApplyAgain

Spec == Init /\ [][Next]_vars

----------------------------------------------------------------------------
(* Properties of transform_config                                          *)

\* C1: idempotence of the pipeline.  Applying transform_config to its own
\* result returns that result again: the second application does not raise
\* and its text equals the text the first application returned.
C1_Idempotent ==
    (pass = 2 /\ pc \in {"returned", "raised"})
        => (pc = "returned" /\ text = first)

\* C2: validation soundness.  For every input the five steps run without
\* raising and validate_result finds nothing on their output, so that
\* transform_config never raises.
C2_NeverRaises ==
    /\ pc # "raised"
    /\ (pc = "returned" => errors = <<>>)

\* the text that Scenario A names, written out
\* | default_mode "locked"
DefaultModeLockedLine ==
    <<"d","e","f","a","u","l","t","_","m","o","d","e"," ","\"","l","o","c",
      "k","e","d","\"","\n">>

\* | keybinds {
\* |     locked {
\* |         bind "Ctrl b" { SwitchToMode "Tmux"; }
\* |     }
\* |     tmux {
\* |         bind "Ctrl b" { Write 2; SwitchToMode "Locked"; }
\* |     }
\* |     shared_except "normal" "locked" {
\* |         bind "Enter" "Esc" { SwitchToMode "Locked"; }
\* |     }
\* | }
CanonicalKeybinds ==
    <<"k","e","y","b","i","n","d","s"," ","{","\n"," "," "," "," ","l","o",
      "c","k","e","d"," ","{","\n"," "," "," "," "," "," "," "," ","b","i",
      "n","d"," ","\"","C","t","r","l"," ","b","\""," ","{"," ","S","w","i",
      "t","c","h","T","o","M","o","d","e"," ","\"","T","m","u","x","\"",";",
      " ","}","\n"," "," "," "," ","}","\n"," "," "," "," ","t","m","u","x",
      " ","{","\n"," "," "," "," "," "," "," "," ","b","i","n","d"," ","\"",
      "C","t","r","l"," ","b","\""," ","{"," ","W","r","i","t","e"," ","2",
      ";"," ","S","w","i","t","c","h","T","o","M","o","d","e"," ","\"","L",
      "o","c","k","e","d","\"",";"," ","}","\n"," "," "," "," ","}","\n"," ",
      " "," "," ","s","h","a","r","e","d","_","e","x","c","e","p","t"," ",
      "\"","n","o","r","m","a","l","\""," ","\"","l","o","c","k","e","d","\"",
      " ","{","\n"," "," "," "," "," "," "," "," ","b","i","n","d"," ","\"",
      "E","n","t","e","r","\""," ","\"","E","s","c","\""," ","{"," ","S","w",
      "i","t","c","h","T","o","M","o","d","e"," ","\"","L","o","c","k","e",
      "d","\"",";"," ","}","\n"," "," "," "," ","}","\n","}","\n">>

\* C7: Scenario A.  For the empty input transform_config returns, without
\* raising, the line default_mode locked followed by the canonical keybinds
\* block; and whenever the text handed to ensure_keybinds_block has no
\* depth-0 keybinds block, the step returns that text, a newline if the text
\* is not empty and does not end with one, and the canonical block.
C7_ScenarioA ==
    /\ (pass = 1 /\ input = <<>>) =>
           /\ pc # "raised"
           /\ (pc = "returned" =>
                  /\ text = DefaultModeLockedLine \o CanonicalKeybinds
                  /\ errors = <<>>)
    /\ (pc = "ensure_locked_ctrl_b_to_tmux" /\ get_keybinds_block(prev) = NoBlock)
           => text = prev
                     \o (IF prev # <<>> /\ prev[Len(prev)] # "\n"
                         THEN <<"\n">> ELSE <<>>)
                     \o CanonicalKeybinds

\* the empty input has been transformed and the result returned
C7_Witness ==
    /\ pass = 1
    /\ input = <<>>
    /\ pc = "returned"
    /\ text = DefaultModeLockedLine \o CanonicalKeybinds

----------------------------------------------------------------------------
(* What the frame and the recognition claims speak of, read off the scan   *)
(* of the whole text                                                       *)

\* whether the text p occurs in s
Contains(s, p) == \E k \in 0..(Len(s) - Len(p)) : StartsWithAt(s, p, k)

\* whether a default_mode keyword that is live code at depth 0 starts at
\* offset p of text_
LiveDefaultModeAt(text_, sc, p) ==
    /\ KeywordAt(text_, S_default_mode, p, Len(text_))
    /\ sc.code_mask[p]
    /\ sc.depth_before[p] = 0

\* the offset just after the value that starts at offset v: a quoted string
\* up to its closing quote (the rest of the line when it has none), or a bare
\* word up to the next whitespace or semicolon
ValueEnd(text_, v) ==
    IF v < Len(text_) /\ At(text_, v) = "\"" /\ MatchQuotedAt(text_, v) # -1
    THEN MatchQuotedAt(text_, v)
    ELSE IF v < Len(text_) /\ At(text_, v) = "\""
    THEN FirstOf({k \in v..(Len(text_) - 1) : At(text_, k) = "\n"}, Len(text_))
    ELSE FirstOf({k \in v..(Len(text_) - 1) :
                     IsSpace(At(text_, k)) \/ At(text_, k) = ";"}, Len(text_))

\* the offsets of the values of the live depth-0 default_mode statements
DefaultModeValues(text_, sc) ==
    UNION { SkipBlanks(text_, p + Len(S_default_mode))
                ..(ValueEnd(text_, SkipBlanks(text_, p + Len(S_default_mode))) - 1) :
            p \in {k \in 0..(Len(text_) - 1) : LiveDefaultModeAt(text_, sc, k)} }

\* whether a live SwitchToMode whose quoted argument is Normal, in any
\* letter case, starts at offset p of text_
LiveSwitchToNormalAt(text_, sc, p) ==
    /\ sc.code_mask[p]
    /\ StartsWithAt(text_, S_SwitchToMode, p)
    /\ MatchCI(text_, Quoted(S_Normal),
               SkipSpaces(text_, p + Len(S_SwitchToMode)))

\* the offsets of the first characters of the Normal payloads of the live
\* SwitchToMode actions between the offsets lo and hi
NormalPayloadStarts(text_, sc, lo, hi) ==
    { SkipSpaces(text_, p + Len(S_SwitchToMode)) + 1 :
        p \in {k \in lo..(hi - 1) : LiveSwitchToNormalAt(text_, sc, k)} }

\* the offsets of the characters of those payloads
NormalPayloads(text_, sc, lo, hi) ==
    UNION { s..(s + Len(S_Normal) - 1) :
            s \in NormalPayloadStarts(text_, sc, lo, hi) }

\* the characters of text_ at the offsets outside exempt, in order
KeptCharacters(text_, exempt) ==
    Loop(LAMBDA acc, q : IF q \in exempt THEN acc ELSE Append(acc, At(text_, q)),
         <<>>, 0, Len(text_) - 1)

\* whether the characters of a appear in b in the same order
AppearInOrder(a, b) ==
    Loop(LAMBDA k, i : IF k < Len(a) /\ b[i] = a[k + 1] THEN k + 1 ELSE k,
         0, 1, Len(b)) = Len(a)

\* the input characters that the frame of the pipeline leaves alone: all but
\* the values of the live depth-0 default_mode statements and the Normal
\* payloads of live SwitchToMode actions (wherever those actions are)
FrameOf(text_, sc) ==
    KeptCharacters(text_,
                   DefaultModeValues(text_, sc)
                       \cup NormalPayloads(text_, sc, 0, Len(text_)))

\* C5: frame of the pipeline.  Every character of the input other than the
\* value of a live depth-0 default_mode statement and the payload of a live
\* SwitchToMode Normal action appears in the text that transform_config
\* returns, unchanged and in the same order.
C5_Frame ==
    (pass = 1 /\ pc = "returned")
        => AppearInOrder(FrameOf(input, scan_code_and_depth(input)), text)

\* whether SwitchToMode with the quoted argument mode occurs as live code in
\* the body of bind_block
LiveSwitchToMode(text_, sc, bind_block, mode) ==
    \E p \in (bind_block.open_brace + 1)..(bind_block.close_brace - 1) :
        sc.code_mask[p] /\ SwitchToModeAt(text_, mode, p)

\* whether every bind of binds that bind_has_key_and_mode accepts for Ctrl b
\* and Tmux has the action as live code
AcceptedBindsAreLive(text_, sc, binds) ==
    \A k \in 1..Len(binds) :
        bind_has_key_and_mode(text_, binds[k], S_CtrlB, S_Tmux)
            => LiveSwitchToMode(text_, sc, binds[k], S_Tmux)

\* C6: lexical safety of recognition.  In the text that transform_config
\* returns, a bind of the locked block satisfies bind_has_key_and_mode for
\* Ctrl b and Tmux only if its body has SwitchToMode Tmux as live code, not
\* merely inside a comment or a string.
C6_LexicalSafety ==
    pc = "returned"
        => AcceptedBindsAreLive(
               text, scan_code_and_depth(text),
               find_bind_blocks(text,
                                find_mode_block(text, get_keybinds_block(text),
                                                S_locked)))

\* the line text_[r.start:r.end]
LineText(text_, r) == Slice(text_, r.start, r.end)

\* whether the line r of text_ has a default_mode keyword that is live code at
\* depth 0
LiveDefaultModeInLine(text_, sc, r) ==
    \E p \in r.start..(r.end - 1) : LiveDefaultModeAt(text_, sc, p)

\* whether new_line is old_line with the same trailing comment and a code
\* portion that contains default_mode locked
LineRewritten(old_line, new_line) ==
    /\ CommentPart(new_line, find_line_comment_start(new_line))
           = CommentPart(old_line, find_line_comment_start(old_line))
    /\ Contains(CodePart(new_line, find_line_comment_start(new_line)),
                DefaultModeLockedStmt)

\* whether new_ is old with exactly the lines that have a live depth-0
\* default_mode rewritten
LinesRewritten(old, sc, old_lines, new_, new_lines) ==
    (\E n \in 1..Len(old_lines) : LiveDefaultModeInLine(old, sc, old_lines[n]))
        => /\ Len(new_lines) = Len(old_lines)
           /\ \A n \in 1..Len(old_lines) :
                  IF LiveDefaultModeInLine(old, sc, old_lines[n])
                  THEN LineRewritten(LineText(old, old_lines[n]),
                                     LineText(new_, new_lines[n]))
                  ELSE LineText(new_, new_lines[n]) = LineText(old, old_lines[n])

\* C8: Scenario B, the rewrite of step 1.  ensure_default_mode_locked
\* rewrites every line that has a default_mode keyword as live code at depth
\* 0 so that its code portion contains default_mode locked and its trailing
\* comment is kept, and leaves every other line as it was.
C8_Step1Rewrite ==
    pc = "ensure_keybinds_block"
        => LinesRewritten(prev, scan_code_and_depth(prev),
                          iter_line_ranges(prev), text, iter_line_ranges(text))

\* whether keybinds, a block of text_, has a normal child and none of the
\* three blocks the pipeline requires
OnlyUnrelatedChild(text_, keybinds) ==
    /\ keybinds # NoBlock
    /\ find_mode_block(text_, keybinds, S_normal) # NoBlock
    /\ find_mode_block(text_, keybinds, S_locked) = NoBlock
    /\ find_mode_block(text_, keybinds, S_tmux) = NoBlock
    /\ find_shared_except_normal_locked_block(text_, keybinds) = NoBlock

\* whether block is a child of keybinds whose line starts with indent
ChildIndented(text_, keybinds, block, indent) ==
    /\ block # NoBlock
    /\ block.depth = keybinds.depth + 1
    /\ block.close_brace < keybinds.close_brace
    /\ line_indent(text_, block.keyword_pos) = indent

\* whether keybinds, a block of text_, holds the text child and the three
\* required blocks, each with its binding and each indented by indent
ThreeChildrenAdded(text_, keybinds, child, indent) ==
    /\ keybinds # NoBlock
    /\ Contains(Slice(text_, keybinds.open_brace + 1, keybinds.close_brace),
                child)
    /\ ChildIndented(text_, keybinds,
                     find_mode_block(text_, keybinds, S_locked), indent)
    /\ ChildIndented(text_, keybinds,
                     find_mode_block(text_, keybinds, S_tmux), indent)
    /\ ChildIndented(text_, keybinds,
                     find_shared_except_normal_locked_block(text_, keybinds),
                     indent)
    /\ AnyKeyAndMode(
           text_,
           find_bind_blocks(text_, find_mode_block(text_, keybinds, S_locked)),
           S_CtrlB, S_Tmux)
    /\ AnyKeyAndMode(
           text_,
           find_bind_blocks(text_, find_mode_block(text_, keybinds, S_tmux)),
           S_CtrlB, S_Locked)
    /\ AnyEnterEscLocked(
           text_,
           find_bind_blocks(
               text_, find_shared_except_normal_locked_block(text_, keybinds)))

\* Scenario C for the normal child normal_ of the keybinds block of old
ScenarioCFor(old, normal_, new_) ==
    ThreeChildrenAdded(
        new_, get_keybinds_block(new_),
        Slice(old, normal_.keyword_pos, normal_.close_brace + 1),
        line_indent(old, normal_.keyword_pos))

\* C9: Scenario C.  When the keybinds block of the input has a normal child
\* and none of the required blocks, the text that transform_config returns
\* keeps the child verbatim inside keybinds, and keybinds has a locked, a
\* tmux and a shared_except normal locked child, each with its required
\* binding and each indented like the existing child.
C9_ScenarioC ==
    (/\ pass = 1
     /\ pc = "returned"
     /\ OnlyUnrelatedChild(input, get_keybinds_block(input)))
        => ScenarioCFor(input,
                        find_mode_block(input, get_keybinds_block(input),
                                        S_normal),
                        text)

\* whether new_ is old with Locked for every Normal payload that is live in
\* the body of tmux, a block of old: the text before the close brace of tmux
\* differs in those payloads only, and the text from that brace on is kept
\* (the step may insert a bind just before the brace)
PayloadsRewritten(old, tmux, payloads, starts, new_) ==
    /\ Len(new_) >= Len(old)
    /\ \A s \in starts : Slice(new_, s, s + Len(S_Locked)) = S_Locked
    /\ \A q \in 0..(tmux.close_brace - 1) :
           q \notin payloads => At(new_, q) = At(old, q)
    /\ Slice(new_, Len(new_) - (Len(old) - tmux.close_brace), Len(new_))
           = Slice(old, tmux.close_brace, Len(old))

\* whether no SwitchToMode Normal is left in the body of tmux, a block of new_
NoneLeft(new_, sc, tmux) ==
    /\ tmux # NoBlock
    /\ count_switch_mode_in_block_body(new_, tmux, S_Normal) = 0
    /\ NormalPayloadStarts(new_, sc, tmux.open_brace + 1, tmux.close_brace) = {}

\* the rewrite of step 4, from old with the block tmux to new_
Step4Rewrite(old, sc, tmux, new_) ==
    tmux # NoBlock
        => /\ PayloadsRewritten(
                  old, tmux,
                  NormalPayloads(old, sc, tmux.open_brace + 1, tmux.close_brace),
                  NormalPayloadStarts(old, sc, tmux.open_brace + 1,
                                      tmux.close_brace),
                  new_)
           /\ NoneLeft(new_, scan_code_and_depth(new_),
                       find_mode_block(new_, get_keybinds_block(new_), S_tmux))

\* C10: Scenario D, the rewrite of step 4.  After
\* ensure_tmux_block_locked_returns every live SwitchToMode in the body of
\* the tmux block whose quoted argument was Normal, in any letter case, has
\* the payload Locked and count_switch_mode_in_block_body for Normal is 0,
\* while every character outside those payloads, the text SwitchToMode
\* Normal inside strings and comments included, is as it was.
C10_Step4Rewrite ==
    pc = "ensure_shared_except_normal_locked_returns"
        => Step4Rewrite(prev, scan_code_and_depth(prev),
                        find_mode_block(prev, get_keybinds_block(prev), S_tmux),
                        text)

\* whether the body of tmux, a block of text_, has a live SwitchToMode Normal
\* and a string that holds the text SwitchToMode Normal
ScenarioD(text_, tmux) ==
    /\ tmux # NoBlock
    /\ count_switch_mode_in_block_body(text_, tmux, S_Normal) > 0
    /\ Contains(Slice(text_, tmux.open_brace + 1, tmux.close_brace),
                Quoted(S_SwitchToMode \o SP \o S_Normal))

\* step 4 has rewritten a tmux block that had both
C10_Witness ==
    /\ pc = "ensure_shared_except_normal_locked_returns"
    /\ ScenarioD(prev, find_mode_block(prev, get_keybinds_block(prev), S_tmux))
    /\ text # prev

----------------------------------------------------------------------------
(* main(), ensure_config_exists, run_zellij_check and atomic_write, one    *)
(* statement at a time, next to a concurrent reader of the target file.    *)
(* The file system calls themselves are taken to succeed.                  *)

\* a variant of UniversalNewlines that leaves every byte as it is
BinaryMode(bytes) == bytes

\* decoding in text mode with universal newlines, as Path.read_text and
\* subprocess.run(text=True) do: \r\n and a lone \r become \n
UniversalNewlines(bytes) ==
    Loop(LAMBDA acc, k :
             IF bytes[k] # "\r" THEN Append(acc, bytes[k])
             ELSE IF k < Len(bytes) /\ bytes[k + 1] = "\n" THEN acc
             ELSE Append(acc, "\n"),
         <<>>, 1, Len(bytes))

\* config_path.read_text(encoding="utf-8")
read_text(file) == UniversalNewlines(file.bytes)

\* the bytes that open(fd, "w", encoding="utf-8", newline="") writes for
\* content: no newline is translated, and a character of the documents here
\* is one byte
Encoded(content_) == content_

\* the text s with \r\n for every \n
WithCRLF(s) ==
    Loop(LAMBDA acc, k :
             IF s[k] = "\n" THEN acc \o <<"\r", "\n">> ELSE Append(acc, s[k]),
         <<>>, 1, Len(s))

\* the target file before the run
MainFiles ==
    { Absent,
      File(Part_default_normal_keep),
      File(WithCRLF(Part_default_normal_keep)),
      File(Part_comment_tail),
      File(DefaultModeLockedStmt \o NL \o KeybindsSnippet) }

\* how a run of an external command ends: FileNotFoundError, TimeoutExpired,
\* or a CompletedProcess with a return code and what it wrote to stdout
NotFound == [kind |-> "not_found", returncode |-> -1, stdout |-> <<>>]

TimedOut == [kind |-> "timeout", returncode |-> -1, stdout |-> <<>>]

Completed(returncode, stdout_bytes) ==
    [kind |-> "completed", returncode |-> returncode, stdout |-> stdout_bytes]

\* what `zellij setup --dump-config` may do
GenerateOutcomes ==
    { NotFound, TimedOut, Completed(1, <<>>), Completed(0, <<>>),
      Completed(0, Part_theme_tail \o NL),
      Completed(0, WithCRLF(Part_default_normal_keep)),
      Completed(0, Part_comment_tail) }

\* what `zellij setup --check` may do
CheckOutcomes == { NotFound, TimedOut, Completed(1, <<>>), Completed(0, <<>>) }

\* the ConfigEditError of run_command for the outcome o of args, or NoFailure
\* (the messages are those of the source without their backquotes)
run_command(o, args) ==
    IF o.kind = "not_found"
    THEN [kind |-> "not_found", msg |-> <<"Command not found: zellij">>]
    ELSE IF o.kind = "timeout"
    THEN [kind |-> "timeout", msg |-> <<"Command timed out:", args>>]
    ELSE NoFailure

\* a variant of TempName that opens the target itself for writing
TargetName == "target"

\* the name that tempfile.mkstemp returns: a new file in the directory of
\* the target
TempName == "tmp"

\* the call atomic_write(config_path, c), after which main continues at r
StartAtomicWrite(c, r) ==
    /\ content' = c
    /\ ret' = r
    /\ replacing' = fs.target
    /\ mpc' = "mkstemp"

\* the exception e leaves main() for the handler of the script
RaiseFromMain(e) ==
    /\ failure' = e
    /\ mpc' = "except"

PipelineIdle ==
    /\ pc = "idle"
    /\ input = <<>>
    /\ text = <<>>
    /\ prev = <<>>
    /\ errors = <<>>
    /\ pass = 0
    /\ first = <<>>

InitMain ==
    /\ PipelineIdle
    /\ ScanIdle
    /\ mpc = "ensure_config_exists"
    /\ fs \in {[target |-> f, tmp |-> Absent] : f \in MainFiles}
    /\ skip \in BOOLEAN
    /\ generated = FALSE
    /\ original_text = <<>>
    /\ updated_text = <<>>
    /\ changed = FALSE
    /\ content = <<>>
    /\ ret = "idle"
    /\ calls = [generate |-> 0, check |-> 0]
    /\ status = -1
    /\ stderr = <<>>
    /\ failure = NoFailure
    /\ pre = fs.target
    /\ replacing = fs.target
    /\ replaced = 0
    /\ observed = [seen |-> fs.target, old |-> fs.target, new |-> fs.target]
    /\ emitted = <<>>

\* ensure_config_exists when the target exists: `return False`
ConfigExists ==
    /\ mpc = "ensure_config_exists"
    /\ fs.target.exists
    /\ generated' = FALSE
    /\ mpc' = "read_text"
    /\ UNCHANGED <<fs, skip, original_text, updated_text, changed, content, ret,
                   calls, status, stderr, failure, pre, replacing, replaced,
                   observed>>
    /\ UNCHANGED <<emitted, pipeline_vars, scan_vars>>

\* ensure_config_exists from `result = run_command(...)` on, where the
\* command ended as o and stdout is its decoded output
Generated(o, stdout) ==
    IF run_command(o, "zellij setup --dump-config") # NoFailure
    THEN /\ RaiseFromMain(run_command(o, "zellij setup --dump-config"))
         /\ UNCHANGED <<generated, content, ret, replacing>>
    ELSE IF o.returncode # 0
    THEN /\ RaiseFromMain(
                [kind |-> "generate",
                 msg  |-> <<"Failed to generate config with zellij setup --dump-config">>])
         /\ UNCHANGED <<generated, content, ret, replacing>>
    ELSE IF stdout = <<>>
    THEN /\ RaiseFromMain(
                [kind |-> "generate",
                 msg  |-> <<"zellij setup --dump-config returned empty output">>])
         /\ UNCHANGED <<generated, content, ret, replacing>>
    ELSE \* atomic_write(config_path, result.stdout); return True
         /\ StartAtomicWrite(stdout, "read_text")
         /\ generated' = TRUE
         /\ UNCHANGED failure

\* ensure_config_exists when the target does not exist
GenerateConfig ==
    /\ mpc = "ensure_config_exists"
    /\ ~fs.target.exists
    /\ calls' = [calls EXCEPT !.generate = @ + 1]
    /\ \E o \in GenerateOutcomes :
           /\ emitted' = o.stdout
           /\ Generated(o, UniversalNewlines(o.stdout))
    /\ UNCHANGED <<fs, skip, original_text, updated_text, changed, status,
                   stderr, pre, replaced, observed>>
    /\ UNCHANGED <<pipeline_vars, scan_vars>>

\* fd, tmp_name = tempfile.mkstemp(...): a new, empty file
Mkstemp ==
    /\ mpc = "mkstemp"
    /\ fs' = [fs EXCEPT ![TempName] = File(<<>>)]
    /\ mpc' = "write"
    /\ UNCHANGED <<skip, generated, original_text, updated_text, changed,
                   content, ret, calls, status, stderr, failure, pre, replacing,
                   replaced, observed>>
    /\ UNCHANGED <<emitted, pipeline_vars, scan_vars>>

\* handle.write(content): the text is buffered, and a first part of it may
\* reach the file already
Write ==
    /\ mpc = "write"
    /\ \E n \in {0, Len(Encoded(content)) \div 2} :
           fs' = [fs EXCEPT ![TempName] = File(Slice(Encoded(content), 0, n))]
    /\ mpc' = "flush"
    /\ UNCHANGED <<skip, generated, original_text, updated_text, changed,
                   content, ret, calls, status, stderr, failure, pre, replacing,
                   replaced, observed>>
    /\ UNCHANGED <<emitted, pipeline_vars, scan_vars>>

\* handle.flush(): the file holds all of the text
Flush ==
    /\ mpc = "flush"
    /\ fs' = [fs EXCEPT ![TempName] = File(Encoded(content))]
    /\ mpc' = "fsync"
    /\ UNCHANGED <<skip, generated, original_text, updated_text, changed,
                   content, ret, calls, status, stderr, failure, pre, replacing,
                   replaced, observed>>
    /\ UNCHANGED <<emitted, pipeline_vars, scan_vars>>

\* os.fsync(handle.fileno()), and the file is closed
Fsync ==
    /\ mpc = "fsync"
    /\ mpc' = "replace"
    /\ UNCHANGED <<fs, skip, generated, original_text, updated_text, changed,
                   content, ret, calls, status, stderr, failure, pre, replacing,
                   replaced, observed>>
    /\ UNCHANGED <<emitted, pipeline_vars, scan_vars>>

\* the directory after os.replace(name, target)
Renamed(dir, name) ==
    IF name = "target" THEN dir
    ELSE [dir EXCEPT !.target = dir[name], ![name] = Absent]

\* tmp_path.replace(path), and atomic_write returns
Replace ==
    /\ mpc = "replace"
    /\ fs' = Renamed(fs, TempName)
    /\ replaced' = replaced + 1
    /\ mpc' = ret
    /\ UNCHANGED <<skip, generated, original_text, updated_text, changed,
                   content, ret, calls, status, stderr, failure, pre, replacing,
                   observed>>
    /\ UNCHANGED <<emitted, pipeline_vars, scan_vars>>

\* original_text = config_path.read_text(encoding="utf-8")
ReadText ==
    /\ mpc = "read_text"
    /\ original_text' = read_text(fs.target)
    /\ mpc' = "transform_config"
    /\ UNCHANGED <<fs, skip, generated, updated_text, changed, content, ret,
                   calls, status, stderr, failure, pre, replacing, replaced,
                   observed>>
    /\ UNCHANGED <<emitted, pipeline_vars, scan_vars>>

\* main from the return of transform_config, r, to the call of
\* run_zellij_check
Transformed(r) ==
    IF r.raised
    THEN /\ RaiseFromMain([kind |-> "transform", msg |-> r.msg])
         /\ UNCHANGED <<updated_text, changed, content, ret, replacing>>
    ELSE /\ updated_text' = r.text
         /\ changed' = (r.text # original_text)
         /\ IF r.text # original_text
            THEN StartAtomicWrite(r.text, "run_zellij_check")
            ELSE /\ mpc' = "run_zellij_check"
                 /\ UNCHANGED <<content, ret, replacing>>
         /\ UNCHANGED failure

\* updated_text = transform_config(original_text); changed = ...;
\* if changed: atomic_write(config_path, updated_text)
TransformConfig ==
    /\ mpc = "transform_config"
    /\ Transformed(transform_config(original_text))
    /\ UNCHANGED <<fs, skip, generated, original_text, calls, status, stderr,
                   pre, replaced, observed>>
    /\ UNCHANGED <<emitted, pipeline_vars, scan_vars>>

\* a variant of CheckWanted that ignores the flag
CheckAlways(skip_zellij_check) == TRUE

\* whether main calls run_zellij_check: `if not args.skip_zellij_check`
CheckWanted(skip_zellij_check) == ~skip_zellij_check

\* the try statement of main when the check is skipped
SkipZellijCheck ==
    /\ mpc = "run_zellij_check"
    /\ ~CheckWanted(skip)
    /\ mpc' = "return"
    /\ UNCHANGED <<fs, skip, generated, original_text, updated_text, changed,
                   content, ret, calls, status, stderr, failure, pre, replacing,
                   replaced, observed>>
    /\ UNCHANGED <<emitted, pipeline_vars, scan_vars>>

\* the ConfigEditError of run_zellij_check for the outcome o, or NoFailure
run_zellij_check(o) ==
    IF run_command(o, "zellij setup --check") # NoFailure
    THEN run_command(o, "zellij setup --check")
    ELSE IF o.returncode # 0
    THEN [kind |-> "check", msg |-> <<"zellij setup --check failed">>]
    ELSE NoFailure

\* a variant of Checked whose except clause writes the original text back
\* whether or not the file was changed
CheckedAlwaysRestores(e) ==
    IF e = NoFailure
    THEN /\ mpc' = "return"
         /\ UNCHANGED <<content, ret, replacing, failure>>
    ELSE /\ failure' = e
         /\ StartAtomicWrite(original_text, "except")

\* the try statement of main from the return of run_zellij_check on: the
\* except clause writes the original text back when the file was changed
Checked(e) ==
    IF e = NoFailure
    THEN /\ mpc' = "return"
         /\ UNCHANGED <<content, ret, replacing, failure>>
    ELSE /\ failure' = e
         /\ IF changed
            THEN StartAtomicWrite(original_text, "except")
            ELSE /\ mpc' = "except"
                 /\ UNCHANGED <<content, ret, replacing>>

\* the try statement of main when the check runs
RunZellijCheck ==
    /\ mpc = "run_zellij_check"
    /\ CheckWanted(skip)
    /\ calls' = [calls EXCEPT !.check = @ + 1]
    /\ \E o \in CheckOutcomes : Checked(run_zellij_check(o))
    /\ UNCHANGED <<fs, skip, generated, original_text, updated_text, changed,
                   status, stderr, pre, replaced, observed>>
    /\ UNCHANGED <<emitted, pipeline_vars, scan_vars>>

\* a variant of SystemExit that reports success whatever happened
SystemExitZero(error) == 0

\* the exit status of the script: SystemExit(main()) is SystemExit(0), and
\* the handler of ConfigEditError raises SystemExit(1)
SystemExit(error) == IF error THEN 1 ELSE 0

\* the prints of main and `return 0`
Return ==
    /\ mpc = "return"
    /\ status' = SystemExit(FALSE)
    /\ mpc' = "exited"
    /\ UNCHANGED <<fs, skip, generated, original_text, updated_text, changed,
                   content, ret, calls, stderr, failure, pre, replacing,
                   replaced, observed>>
    /\ UNCHANGED <<emitted, pipeline_vars, scan_vars>>

\* except ConfigEditError as exc: print to stderr and exit
Except ==
    /\ mpc = "except"
    /\ stderr' = <<"[ERROR]">> \o failure.msg
    /\ status' = SystemExit(TRUE)
    /\ mpc' = "exited"
    /\ UNCHANGED <<fs, skip, generated, original_text, updated_text, changed,
                   content, ret, calls, failure, pre, replacing, replaced,
                   observed>>
    /\ UNCHANGED <<emitted, pipeline_vars, scan_vars>>

\* another process reads the target file while the run is under way
ReaderReads ==
    /\ mpc \notin {"idle", "exited"}
    /\ observed' = [seen |-> fs.target, old |-> replacing,
                    new |-> File(Encoded(content))]
    /\ UNCHANGED <<mpc, fs, skip, generated, original_text, updated_text,
                   changed, content, ret, calls, status, stderr, failure, pre,
                   replacing, replaced>>
    /\ UNCHANGED <<emitted, pipeline_vars, scan_vars>>

NextMain ==
    \/ ConfigExists
    \/ GenerateConfig
    \/ Mkstemp
    \/ Write
    \/ Flush
    \/ Fsync
    \/ Replace
    \/ ReadText
    \/ TransformConfig
    \/ SkipZellijCheck
    \/ RunZellijCheck
    \/ Return
    \/ Except
    \/ ReaderReads

SpecMain == InitMain /\ [][NextMain]_vars

----------------------------------------------------------------------------
(* Properties of main() and atomic_write                                   *)

\* the positions of main inside atomic_write
InAtomicWrite == mpc \in {"mkstemp", "write", "flush", "fsync", "replace"}

\* whether the run has ended with the failure of the post-check
CheckFailed ==
    /\ mpc = "exited"
    /\ calls.check = 1
    /\ failure.kind \in {"check", "not_found", "timeout"}

\* C3: rollback, Scenario E.  When the updated text was written and the
\* post-check then fails, by a non-zero exit, a command that is not found or
\* a timeout, the target file after the run has the bytes it had before the
\* run, and the exit status is 1.
C3_Rollback ==
    (CheckFailed /\ changed) => (fs.target = pre /\ status = 1)

\* C4: atomic visibility.  Whatever a concurrent reader of the target sees
\* is the complete content the target had when the atomic_write began or the
\* complete content being written; and so is the target at every point
\* inside atomic_write.
C4_AtomicVisibility ==
    /\ observed.seen \in {observed.old, observed.new}
    /\ InAtomicWrite => fs.target \in {replacing, File(Encoded(content))}

\* the reader has seen the old content while the temp file held a part of
\* the new content
C4_Witness ==
    /\ mpc = "flush"
    /\ fs.tmp.exists
    /\ fs.tmp.bytes # <<>>
    /\ fs.tmp # File(Encoded(content))
    /\ replacing # File(Encoded(content))
    /\ observed = [seen |-> replacing, old |-> replacing,
                   new |-> File(Encoded(content))]

\* C11: exit codes.  A run that has ended has status 0 or 1; it has status 0
\* exactly when no ConfigEditError was raised, and then the generator ran
\* only for a missing file, the check ran unless skipped, and the target
\* holds the transformed text; with status 1 there is an error message on
\* the error stream.
C11_ExitCodes ==
    mpc = "exited" =>
        /\ status \in {0, 1}
        /\ (status = 0) = (failure = NoFailure)
        /\ status = 0 =>
               /\ stderr = <<>>
               /\ fs.target.exists
               /\ read_text(fs.target) = updated_text
               /\ calls.generate = (IF pre.exists THEN 0 ELSE 1)
               /\ calls.check = (IF skip THEN 0 ELSE 1)
        /\ status = 1 =>
               /\ Len(stderr) >= 2
               /\ stderr[1] = "[ERROR]"

\* a run on a file that already satisfied every requirement has ended with
\* status 0 and without a write
C11_Witness ==
    /\ mpc = "exited"
    /\ status = 0
    /\ ~changed
    /\ replaced = 0
    /\ calls.check = 1

\* whether the run has ended with the failure of the generator
GenerateFailed ==
    /\ calls.generate = 1
    /\ calls.check = 0
    /\ failure.kind \in {"generate", "not_found", "timeout"}

\* the generator has succeeded and ensure_config_exists has returned
JustGenerated == mpc = "read_text" /\ calls.generate = 1

\* C12 as stated: the generator runs only when the target does not exist; if
\* it fails, no file exists at the target afterwards; on success the target
\* holds exactly the bytes the generator wrote to its standard output.
C12_GeneratorOutputExactly ==
    /\ calls.generate > 0 => ~pre.exists
    /\ GenerateFailed => ~fs.target.exists
    /\ JustGenerated => fs.target = File(emitted)

\* whether t is b decoded with universal newlines: the bytes of b in order,
\* without any \r that a \n follows, and with \n for every other \r
DecodedFrom(t, b, kept) ==
    /\ Len(t) = Len(kept)
    /\ \A i \in 1..Len(kept) :
           t[i] = IF b[kept[i]] = "\r" THEN "\n" ELSE b[kept[i]]

IsDecodingOf(t, b) ==
    DecodedFrom(t, b,
                SelectSeq([k \in 1..Len(b) |-> k],
                          LAMBDA k : ~(/\ b[k] = "\r"
                                       /\ k < Len(b)
                                       /\ b[k + 1] = "\n")))

\* C12, amended: the generator runs only when the target does not exist; if
\* it fails, no file and no temp file exists afterwards; on success the
\* target holds the output of the generator as text mode decodes it, with \n
\* for every \r\n and every lone \r.
C12_GeneratorOutputDecoded ==
    /\ calls.generate > 0 => ~pre.exists
    /\ GenerateFailed => (~fs.target.exists /\ ~fs.tmp.exists)
    /\ JustGenerated =>
           /\ fs.target.exists
           /\ fs.target.bytes # <<>>
           /\ IsDecodingOf(fs.target.bytes, emitted)

\* the generator has written \r\n and the target holds its output
C12_Witness ==
    /\ JustGenerated
    /\ \E k \in 1..Len(emitted) : emitted[k] = "\r"
    /\ fs.target.exists
    /\ fs.target.bytes # emitted

\* C13: an internal validation failure comes before any write.  When
\* transform_config has raised, the run has renamed nothing over the target
\* and the target is as it was before the run.
C13_NoWriteBeforeValidation ==
    failure.kind = "transform" => (replaced = 0 /\ fs.target = pre)

\* C14: no retry.  Each external command runs at most once in a run, the
\* check never runs when it is skipped, and once a ConfigEditError is raised
\* the run only writes the original text back, if it had changed the file,
\* and ends with status 1: no command runs after a failure.
C14_NoRetry ==
    /\ calls.generate <= 1
    /\ calls.check <= 1
    /\ skip => calls.check = 0
    /\ failure # NoFailure =>
           /\ mpc \in {"except", "exited"} \/ (InAtomicWrite /\ ret = "except")
           /\ calls.check = (IF GenerateFailed \/ failure.kind = "transform"
                             THEN 0 ELSE 1)
           /\ mpc = "exited" => status = 1

\* the check has timed out and the run has ended
C14_Witness ==
    /\ mpc = "exited"
    /\ failure.kind = "timeout"
    /\ calls = [generate |-> 1, check |-> 1]
    /\ status = 1

----------------------------------------------------------------------------
(* The scanner and the block locator, applied to short texts               *)

\* the fragments short texts are made of: the braces, the statement end, a
\* one-letter node name, the comment delimiters, the line end and the quote
ScanPieces ==
    << <<"{">>, <<"}">>, <<";">>, <<"k">>, <<"/", "*">>, <<"*", "/">>,
       <<"/", "/">>, <<"\n">>, <<"\"">> >>

\* the node name the block locator is asked for
ScanKeyword == <<"k">>

MaxPieces == 3

\* the concatenations of at most n fragments
RECURSIVE TextsOf(_)
TextsOf(n) ==
    IF n = 0 THEN {<<>>}
    ELSE LET shorter == TextsOf(n - 1)
         IN  shorter \cup {t \o ScanPieces[k] : t \in shorter, k \in DOMAIN ScanPieces}

\* longer texts: nested blocks, a block in a string, a block in a line
\* comment, a block after a block comment, a statement before a block
Sample_nested == <<"k", "{", "k", "{", "}", "}">>
Sample_string == <<"\"", "k", "{", "}", "\"", "k", "{", "}">>
Sample_line_comment == <<"/", "/", "k", "{", "}", "\n", "k", "{", "}">>
Sample_block_comment == <<"k", "{", "/", "*", "}", "*", "/", "}", "k", "{", "}">>
Sample_statement == <<"k", ";", "k", "{", "{", "}", "}">>
Sample_unclosed == <<"k", "{", "k", "{", "}">>

ScanSamples ==
    {Sample_nested, Sample_string, Sample_line_comment, Sample_block_comment,
     Sample_statement, Sample_unclosed}

ScanTexts == TextsOf(MaxPieces) \cup ScanSamples

\* the two lists scan_code_and_depth returns
Scanned(text_) ==
    LET sc == scan_code_and_depth(text_)
    IN  [code_mask |-> sc.code_mask, depth_before |-> sc.depth_before]

InitScan ==
    /\ PipelineIdle
    /\ MainIdle
    /\ subject \in ScanTexts
    /\ call = NoCall
    /\ result = <<>>

\* code_mask, depth_before = scan_code_and_depth(text)
ScanCodeAndDepth ==
    /\ call.op = "none"
    /\ call' = [NoCall EXCEPT !.op = "scan_code_and_depth"]
    /\ result' = Scanned(subject)
    /\ UNCHANGED <<subject, pipeline_vars, main_vars>>

\* find_matching_brace(text, open_brace, code_mask) with the code_mask of text
FindMatchingBrace ==
    /\ call.op = "none"
    /\ \E open_brace \in -1..Len(subject) :
          /\ call' = [NoCall EXCEPT !.op = "find_matching_brace",
                                    !.open_brace = open_brace]
          /\ result' = find_matching_brace(subject, open_brace,
                                           Scanned(subject).code_mask)
    /\ UNCHANGED <<subject, pipeline_vars, main_vars>>

\* find_blocks(text, code_mask, depth_before, "k", start, end, target_depth)
\* with the two lists of text and a range 0 <= start <= end <= len(text)
FindBlocks ==
    /\ call.op = "none"
    /\ \E start \in {0, 1}, end \in {Len(subject) - 1, Len(subject)},
          target_depth \in {-1, 0, 1} :
          /\ start <= end
          /\ call' = [NoCall EXCEPT !.op = "find_blocks", !.start = start,
                                    !.end = end, !.target_depth = target_depth]
          /\ result' = find_blocks(subject, Scanned(subject), ScanKeyword,
                                   start, end, target_depth, NoPredicate)
    /\ UNCHANGED <<subject, pipeline_vars, main_vars>>

NextScan ==
    \/ ScanCodeAndDepth
    \/ FindMatchingBrace
    \/ FindBlocks

SpecScan == InitScan /\ [][NextScan]_vars

----------------------------------------------------------------------------
(* Claims about the scanner and the block locator                          *)

\* no character of text_[a:b] opens a string or a comment
PlainCode(text_, a, b) == \A j \in a..(b - 1) : At(text_, j) \notin {"\"", "/"}

\* the first comment of text_ is a block comment opened at a, in live code
FirstCommentOpensAt(text_, a) ==
    /\ StartsWithAt(text_, <<"/", "*">>, a)
    /\ PlainCode(text_, 0, a)

\* the first */ after the /* at a is at b
FirstCloseAt(text_, a, b) ==
    /\ b >= a + 2
    /\ StartsWithAt(text_, <<"*", "/">>, b)
    /\ \A j \in (a + 2)..(b - 1) : ~StartsWithAt(text_, <<"*", "/">>, j)

\* the depth after the live-code character ch met at depth d
DepthAfter(d, ch) ==
    IF ch = "{" THEN d + 1 ELSE IF ch = "}" THEN Max(0, d - 1) ELSE d

\* C15: a block comment ends at the first */ after its /*: every later
\* character outside any other string or comment has code_mask true, and a
\* live-code brace there changes the depth of the next offset.
C15_BlockCommentEnds ==
    call.op = "scan_code_and_depth" =>
        \A a, b, i \in 0..(Len(subject) - 1) :
            ( /\ FirstCommentOpensAt(subject, a)
              /\ FirstCloseAt(subject, a, b)
              /\ i >= b + 2
              /\ PlainCode(subject, b + 2, i + 1) )
            => /\ result.code_mask[i]
               /\ i + 1 < Len(subject) =>
                      result.depth_before[i + 1]
                          = DepthAfter(result.depth_before[i], At(subject, i))

\* C16: depth_before is never negative, and a live-code } met at depth 0
\* leaves the depth at 0.
C16_DepthNeverNegative ==
    call.op = "scan_code_and_depth" =>
        \A i \in 0..(Len(subject) - 1) :
            /\ result.depth_before[i] >= 0
            /\ ( /\ result.code_mask[i]
                 /\ At(subject, i) = "}"
                 /\ result.depth_before[i] = 0
                 /\ i + 1 < Len(subject) )
               => result.depth_before[i + 1] = 0

\* a text has been scanned that has a live-code } at depth 0 with live code
\* after it
C16_Witness ==
    /\ call.op = "scan_code_and_depth"
    /\ \E i \in 0..(Len(subject) - 2) :
          /\ result.code_mask[i]
          /\ At(subject, i) = "}"
          /\ result.depth_before[i] = 0
          /\ result.code_mask[i + 1]

\* the depth reached by the live-code braces of text_ at offsets < i, starting
\* from 0 and never falling below 0
RunningDepth(text_, code_mask, i) ==
    Loop(LAMBDA d, j : IF code_mask[j] THEN DepthAfter(d, At(text_, j)) ELSE d,
         0, 0, i - 1)

\* C17: at every offset i, also inside strings and comments, depth_before[i]
\* is the running depth of the live-code braces at offsets < i, clamped at 0.
C17_DepthBeforeExact ==
    call.op = "scan_code_and_depth" =>
        \A i \in 0..(Len(subject) - 1) :
            result.depth_before[i] = RunningDepth(subject, result.code_mask, i)

\* how many offsets of a..b hold the live-code character ch
CountLive(text_, code_mask, ch, a, b) ==
    Cardinality({j \in a..b : code_mask[j] /\ At(text_, j) = ch})

\* the live-code braces at the offsets a..b are balanced: as many { as }, and
\* no } before its {
Balanced(text_, code_mask, a, b) ==
    /\ CountLive(text_, code_mask, "{", a, b) = CountLive(text_, code_mask, "}", a, b)
    /\ \A m \in a..b :
          CountLive(text_, code_mask, "}", a, m) <= CountLive(text_, code_mask, "{", a, m)

\* the least c > open with a live-code } such that the live-code braces
\* strictly between open and c are balanced, or -1
MatchingClose(text_, code_mask, open) ==
    FirstOf({c \in (open + 1)..(Len(text_) - 1) :
                /\ code_mask[c]
                /\ At(text_, c) = "}"
                /\ Balanced(text_, code_mask, open + 1, c - 1)}, -1)

\* C18: find_matching_brace returns the least offset c > open of a live-code }
\* with balanced live-code braces strictly between open and c; it returns
\* None when there is none or when text[open] is not {; and when the live-code
\* braces of the whole text are balanced it finds one for every live-code {.
C18_MatchingBrace ==
    call.op = "find_matching_brace" =>
        /\ result = IF /\ call.open_brace \in 0..(Len(subject) - 1)
                       /\ At(subject, call.open_brace) = "{"
                    THEN MatchingClose(subject, Scanned(subject).code_mask,
                                       call.open_brace)
                    ELSE -1
        /\ ( /\ Balanced(subject, Scanned(subject).code_mask, 0, Len(subject) - 1)
             /\ call.open_brace \in 0..(Len(subject) - 1)
             /\ Scanned(subject).code_mask[call.open_brace]
             /\ At(subject, call.open_brace) = "{" )
           => result # -1

\* the close brace of a block that holds a nested block has been found
C18_Witness ==
    /\ call.op = "find_matching_brace"
    /\ result # -1
    /\ \E j \in (call.open_brace + 1)..(result - 1) :
          /\ Scanned(subject).code_mask[j]
          /\ At(subject, j) = "{"

\* the block b found in the range start..end at target_depth (-1 for None)
\* is well formed with respect to the two lists sc of text_
BlockWellFormed(text_, sc, b, start, end, target_depth) ==
    /\ start <= b.keyword_pos
    /\ b.keyword_pos < b.open_brace
    /\ b.open_brace < b.close_brace
    /\ b.close_brace < end
    /\ sc.code_mask[b.keyword_pos]
    /\ sc.code_mask[b.open_brace]
    /\ sc.depth_before[b.keyword_pos] = b.depth
    /\ sc.depth_before[b.open_brace] = b.depth
    /\ target_depth # -1 => b.depth = target_depth
    /\ At(text_, b.open_brace) = "{"
    /\ b.close_brace = MatchingClose(text_, sc.code_mask, b.open_brace)

\* C19: every Block find_blocks returns has start <= keyword_pos < open_brace
\* < close_brace < end, live-code keyword_pos and open_brace at the depth of
\* the block (the target depth when one is given), and the matching close of
\* open_brace as close_brace; the blocks come in increasing keyword_pos order,
\* so the first one is the first in source order.
C19_BlockInvariant ==
    call.op = "find_blocks" =>
        /\ \A k \in 1..Len(result) :
              BlockWellFormed(subject, Scanned(subject), result[k],
                              call.start, call.end, call.target_depth)
        /\ \A k \in 1..(Len(result) - 1) :
              result[k].keyword_pos < result[k + 1].keyword_pos
        /\ \A k \in 1..Len(result) :
              FirstBlock(result).keyword_pos <= result[k].keyword_pos

\* find_blocks has returned two blocks, one nested in the other
C19_Witness ==
    /\ call.op = "find_blocks"
    /\ Len(result) >= 2
    /\ result[1].depth # result[2].depth

\* the first offset of from..(end - 1) that holds the live-code character ch
\* at depth d, or -1
NextLiveAt(text_, sc, ch, from, end, d) ==
    FirstOf({j \in from..(end - 1) :
                /\ sc.code_mask[j]
                /\ At(text_, j) = ch
                /\ sc.depth_before[j] = d}, -1)

\* a keyword occurrence must be dropped: a live-code ; at its depth
\* comes before the next live-code { at that depth, or there is no such {
\* before end, or the matching close of that { is missing or not before end
MustDrop(text_, sc, end, brace, semicolon) ==
    \/ semicolon # -1 /\ (brace = -1 \/ semicolon < brace)
    \/ brace = -1
    \/ MatchingClose(text_, sc.code_mask, brace) = -1
    \/ MatchingClose(text_, sc.code_mask, brace) >= end

\* no block of blocks has its keyword at p
Dropped(blocks, p) == \A k \in 1..Len(blocks) : blocks[k].keyword_pos # p

\* C20: find_blocks returns a list, without the keyword occurrences that are
\* inside a string or a comment and without those that a live-code ; at their
\* depth separates from the next live-code { at that depth, that have no such
\* { before the range end, or whose matching close brace is missing or at or
\* beyond the range end.
C20_CandidateExclusion ==
    call.op = "find_blocks" =>
        \A p \in call.start..(call.end - 1) :
            KeywordAt(subject, ScanKeyword, p, call.end) =>
                /\ ~Scanned(subject).code_mask[p] => Dropped(result, p)
                /\ MustDrop(subject, Scanned(subject), call.end,
                            NextLiveAt(subject, Scanned(subject), "{",
                                       p + Len(ScanKeyword), call.end,
                                       Scanned(subject).depth_before[p]),
                            NextLiveAt(subject, Scanned(subject), ";",
                                       p + Len(ScanKeyword), call.end,
                                       Scanned(subject).depth_before[p]))
                   => Dropped(result, p)

\* find_blocks has dropped a keyword followed by a ; and kept a later one
C20_Witness ==
    /\ call.op = "find_blocks"
    /\ result # <<>>
    /\ \E p \in call.start..(result[1].keyword_pos - 1) :
          /\ KeywordAt(subject, ScanKeyword, p, call.end)
          /\ Scanned(subject).code_mask[p]
          /\ At(subject, p + 1) = ";"

----------------------------------------------------------------------------
(* The single steps, the validator and the helpers, applied to documents   *)

\* |     locked { bind "a" { Quit; } }
Part_locked_inline ==
    <<" "," "," "," ","l","o","c","k","e","d"," ","{"," ","b","i","n","d"," ",
      "\"","a","\""," ","{"," ","Q","u","i","t",";"," ","}"," ","}","\n">>

\* |     tmux {
\* |         bind "Ctrl b" { Quit; }
\* |     }
Part_tmux_ctrl_b_quit ==
    <<" "," "," "," ","t","m","u","x"," ","{","\n"," "," "," "," "," "," ",
      " "," ","b","i","n","d"," ","\"","C","t","r","l"," ","b","\""," ","{",
      " ","Q","u","i","t",";"," ","}","\n"," "," "," "," ","}","\n">>

\* |     shared_except "Locked" "NORMAL" "pane" {
\* |         bind "Esc" { SwitchToMode "Normal"; }
\* |     }
Part_shared_extra ==
    <<" "," "," "," ","s","h","a","r","e","d","_","e","x","c","e","p","t"," ",
      "\"","L","o","c","k","e","d","\""," ","\"","N","O","R","M","A","L","\"",
      " ","\"","p","a","n","e","\""," ","{","\n"," "," "," "," "," "," "," ",
      " ","b","i","n","d"," ","\"","E","s","c","\""," ","{"," ","S","w","i",
      "t","c","h","T","o","M","o","d","e"," ","\"","N","o","r","m","a","l",
      "\"",";"," ","}","\n"," "," "," "," ","}","\n">>

\* |     tmux {
\* |         bind "n" { // SwitchToMode "Normal"
\* |         }
\* |     }
Part_tmux_commented ==
    <<" "," "," "," ","t","m","u","x"," ","{","\n"," "," "," "," "," "," ",
      " "," ","b","i","n","d"," ","\"","n","\""," ","{"," ","/","/"," ","S",
      "w","i","t","c","h","T","o","M","o","d","e"," ","\"","N","o","r","m",
      "a","l","\"","\n"," "," "," "," "," "," "," "," ","}","\n"," "," "," ",
      " ","}","\n">>

StepHeadParts == <<Part_default_normal_keep, Part_default_bare_pane>>

StepChildParts ==
    <<Part_normal_child, Part_normal_flush, Part_tmux_child,
      Part_locked_commented, Part_locked_inline, Part_tmux_ctrl_b_quit,
      Part_shared_extra, Part_tmux_commented>>

StepTailParts == <<Part_comment_tail>>

StepDoc(heads, kb, children, tails) ==
    Join(StepHeadParts, heads)
    \o (IF kb THEN KeybindsOpen \o Join(StepChildParts, children) \o KeybindsClose
        ELSE <<>>)
    \o Join(StepTailParts, tails)

\* the documents of at most MaxParts parts
StepDocs ==
    { StepDoc(q[1], q[2], q[3], q[4]) :
        q \in { q \in (SUBSET DOMAIN StepHeadParts) \X BOOLEAN
                    \X (SUBSET DOMAIN StepChildParts)
                    \X (SUBSET DOMAIN StepTailParts) :
                /\ Cardinality(q[1]) + Cardinality(q[3]) + Cardinality(q[4])
                       <= MaxParts
                /\ (q[3] # {} => q[2]) } }

\* the node names of the blocks of a document
StepKeywords == {S_keybinds, S_normal, S_locked, S_tmux, S_shared_except, S_bind}

\* the blocks of text_ with one of these names, at any depth
StepBlocks(text_) ==
    UNION { SetOf(find_blocks(text_, scan_code_and_depth(text_), kw, 0,
                              Len(text_), -1, NoPredicate)) : kw \in StepKeywords }

\* f(t) and, unless f(t) raised, f(f(t)), for the outcome once of f(t)
Twice(once, again) == [once |-> once, twice |-> IF once.raised THEN once ELSE again]

InitSteps ==
    /\ PipelineIdle
    /\ MainIdle
    /\ subject \in StepDocs
    /\ call = NoCall
    /\ result = <<>>

\* the function named op has been applied to subject and has returned r
Applied(op, r) ==
    /\ call.op = "none"
    /\ call' = [NoCall EXCEPT !.op = op]
    /\ result' = r
    /\ UNCHANGED <<subject, pipeline_vars, main_vars>>

\* ensure_default_mode_locked(text), and again on what it returned
ApplyEnsureDefaultModeLocked ==
    Applied("ensure_default_mode_locked",
            Twice(Ok(ensure_default_mode_locked(subject)),
                  Ok(ensure_default_mode_locked(ensure_default_mode_locked(subject)))))

\* ensure_keybinds_block(text), and again on what it returned
ApplyEnsureKeybindsBlock ==
    Applied("ensure_keybinds_block",
            Twice(Ok(ensure_keybinds_block(subject)),
                  Ok(ensure_keybinds_block(ensure_keybinds_block(subject)))))

\* ensure_locked_ctrl_b_to_tmux(text), and again on what it returned
ApplyEnsureLockedCtrlBToTmux ==
    Applied("ensure_locked_ctrl_b_to_tmux",
            Twice(ensure_locked_ctrl_b_to_tmux(subject),
                  ensure_locked_ctrl_b_to_tmux(ensure_locked_ctrl_b_to_tmux(subject).text)))

\* ensure_tmux_block_locked_returns(text), and again on what it returned
ApplyEnsureTmuxBlockLockedReturns ==
    Applied("ensure_tmux_block_locked_returns",
            Twice(ensure_tmux_block_locked_returns(subject),
                  ensure_tmux_block_locked_returns(ensure_tmux_block_locked_returns(subject).text)))

\* ensure_shared_except_normal_locked_returns(text), and again on what it
\* returned
ApplyEnsureSharedExceptNormalLockedReturns ==
    Applied("ensure_shared_except_normal_locked_returns",
            Twice(ensure_shared_except_normal_locked_returns(subject),
                  ensure_shared_except_normal_locked_returns(
                      ensure_shared_except_normal_locked_returns(subject).text)))

\* validate_result(text)
ApplyValidateResult == Applied("validate_result", validate_result(subject))

\* transform_config(text)
ApplyTransformConfig == Applied("transform_config", transform_config(subject))

\* infer_child_indent(text, parent) for a block parent of text
ApplyInferChildIndent ==
    /\ call.op = "none"
    /\ \E parent \in StepBlocks(subject) :
          /\ call' = [NoCall EXCEPT !.op = "infer_child_indent", !.parent = parent]
          /\ result' = infer_child_indent(subject, parent)
    /\ UNCHANGED <<subject, pipeline_vars, main_vars>>

\* find_switch_mode_value_ranges(body, mode="Normal") for the body of a block
\* of text
ApplyFindSwitchModeValueRanges ==
    /\ call.op = "none"
    /\ \E parent \in StepBlocks(subject) :
          /\ call' = [NoCall EXCEPT !.op = "find_switch_mode_value_ranges",
                                    !.parent = parent]
          /\ result' = find_switch_mode_value_ranges(
                           Slice(subject, parent.open_brace + 1, parent.close_brace),
                           S_Normal)
    /\ UNCHANGED <<subject, pipeline_vars, main_vars>>

NextSteps ==
    \/ ApplyEnsureDefaultModeLocked
    \/ ApplyEnsureKeybindsBlock
    \/ ApplyEnsureLockedCtrlBToTmux
    \/ ApplyEnsureTmuxBlockLockedReturns
    \/ ApplyEnsureSharedExceptNormalLockedReturns
    \/ ApplyValidateResult
    \/ ApplyTransformConfig
    \/ ApplyInferChildIndent
    \/ ApplyFindSwitchModeValueRanges

SpecSteps == InitSteps /\ [][NextSteps]_vars

----------------------------------------------------------------------------
(* Claims about the single steps                                           *)

\* no line of text_ has a default_mode keyword that is live code at depth 0
NoLiveDefaultMode(text_, sc) ==
    \A p \in 0..(Len(text_) - 1) : ~LiveDefaultModeAt(text_, sc, p)

\* the start of the line of the first live-code character of text_, and 0
\* when text_ has no live-code character
FirstLiveLineStart(text_, sc) ==
    LET live == FirstOf({i \in 0..(Len(text_) - 1) : sc.code_mask[i]}, -1)
    IN  IF live = -1 THEN 0
        ELSE LastOf({j \in 0..live : j = 0 \/ At(text_, j - 1) = "\n"}, 0)

\* new_ is old with the line default_mode locked inserted at the offset at,
\* where it is live code at depth 0
Step1Inserted(old, new_, at) ==
    /\ new_ = Slice(old, 0, at) \o DefaultModeLockedStmt \o NL
                 \o Slice(old, at, Len(old))
    /\ LiveDefaultModeAt(new_, scan_code_and_depth(new_), at)

\* C21: the insertion of step 1.  When no line has a live-code depth-0
\* default_mode keyword, ensure_default_mode_locked inserts the line
\* default_mode locked at the start of the first line that has a live-code
\* character, at offset 0 when there is none, and the inserted statement is
\* live code at depth 0.
C21_Step1Insertion ==
    (pc = "ensure_keybinds_block" /\ NoLiveDefaultMode(prev, scan_code_and_depth(prev)))
        => Step1Inserted(prev, text, FirstLiveLineStart(prev, scan_code_and_depth(prev)))

\* s contains p, letter case ignored
ContainsCI(s, p) == \E i \in 0..(Len(s) - Len(p)) : MatchCI(s, p, i)

\* block of text_ is a bind whose header quotes key and whose body contains
\* SwitchToMode mode
BindSwitches(text_, block, key, mode) ==
    /\ Contains(Slice(text_, block.keyword_pos, block.open_brace), Quoted(key))
    /\ ContainsCI(Slice(text_, block.open_brace + 1, block.close_brace),
                  S_SwitchToMode \o SP \o Quoted(mode))

\* the first locked child of the keybinds block of out has a bind child for
\* Ctrl b that switches to Tmux
LockedHasCtrlBTmux(out, keybinds, locked, binds) ==
    /\ keybinds # NoBlock
    /\ locked # NoBlock
    /\ locked.depth = keybinds.depth + 1
    /\ \E k \in 1..Len(binds) : BindSwitches(out, binds[k], S_CtrlB, S_Tmux)

\* out is old with a text that contains snippet inserted at the offset at;
\* the inserted text starts with a newline exactly when the character before
\* at is not one, and the text before and after at is as it was
InsertedAt(old, out, at, snippet) ==
    /\ Len(out) > Len(old)
    /\ Slice(out, 0, at) = Slice(old, 0, at)
    /\ Slice(out, at + Len(out) - Len(old), Len(out)) = Slice(old, at, Len(old))
    /\ Contains(Slice(out, at, at + Len(out) - Len(old)), snippet)
    /\ (At(out, at) = "\n") = (at > 0 /\ At(old, at - 1) # "\n")
    /\ At(out, at) = "\n" => At(out, at + 1) # "\n"

\* the close brace of block when there is one, else that of keybinds
TargetClose(keybinds, block) ==
    IF block = NoBlock THEN keybinds.close_brace ELSE block.close_brace

\* C22: the postcondition of step 3.  After ensure_locked_ctrl_b_to_tmux the
\* first locked child of keybinds has a bind child whose keys include Ctrl b
\* and whose body contains SwitchToMode Tmux; what the step inserts is placed
\* just before the close brace of the target block, after a newline only when
\* the character before is not one, and the rest of the text is unchanged.
C22_Step3Postcondition ==
    (call.op = "ensure_locked_ctrl_b_to_tmux" /\ ~result.once.raised) =>
        /\ LockedHasCtrlBTmux(
               result.once.text, get_keybinds_block(result.once.text),
               find_mode_block(result.once.text,
                               get_keybinds_block(result.once.text), S_locked),
               find_bind_blocks(
                   result.once.text,
                   find_mode_block(result.once.text,
                                   get_keybinds_block(result.once.text), S_locked)))
        /\ result.once.text # subject =>
               InsertedAt(subject, result.once.text,
                          TargetClose(get_keybinds_block(subject),
                                      find_mode_block(subject,
                                                      get_keybinds_block(subject),
                                                      S_locked)),
                          BindCtrlBTmux)

\* step 3 has inserted the binding into a locked block whose close brace
\* follows other text on its line
C22_Witness ==
    /\ call.op = "ensure_locked_ctrl_b_to_tmux"
    /\ ~result.once.raised
    /\ result.once.text # subject
    /\ find_mode_block(subject, get_keybinds_block(subject), S_locked) # NoBlock
    /\ At(subject, find_mode_block(subject, get_keybinds_block(subject),
                                   S_locked).close_brace - 1) # "\n"

\* block of text_ is a bind for Ctrl b whose actions write byte 2 and switch
\* to Locked
BindWritesAndLocks(text_, block) ==
    /\ BindSwitches(text_, block, S_CtrlB, S_Locked)
    /\ Contains(Slice(text_, block.open_brace + 1, block.close_brace), S_Write2)

\* the tmux child of the keybinds block of out has such a bind
TmuxHasCtrlBLocked(out, keybinds, tmux, binds) ==
    /\ keybinds # NoBlock
    /\ tmux # NoBlock
    /\ \E k \in 1..Len(binds) : BindWritesAndLocks(out, binds[k])

\* the same, with the blocks of out looked up
TmuxReturnsToLocked(out) ==
    TmuxHasCtrlBLocked(
        out, get_keybinds_block(out),
        find_mode_block(out, get_keybinds_block(out), S_tmux),
        find_bind_blocks(out, find_mode_block(out, get_keybinds_block(out), S_tmux)))

\* C23: the binding of step 4.  After ensure_tmux_block_locked_returns, and
\* after the whole pipeline, the tmux child of keybinds has a bind for Ctrl b
\* whose actions write byte 2 and switch to Locked; a bind for Ctrl b with
\* other actions does not count, the required one is inserted.
C23_Step4Binding ==
    /\ (call.op = "ensure_tmux_block_locked_returns" /\ ~result.once.raised)
           => TmuxReturnsToLocked(result.once.text)
    /\ (call.op = "transform_config" /\ ~result.raised)
           => TmuxReturnsToLocked(result.text)

\* the header of block quotes normal and locked, in any letter case
HeaderNamesNormalLocked(text_, block) ==
    /\ ContainsCI(Slice(text_, block.keyword_pos, block.open_brace), Quoted(S_normal))
    /\ ContainsCI(Slice(text_, block.keyword_pos, block.open_brace), Quoted(S_locked))

\* the first of the blocks children whose header quotes normal and locked
FirstNormalLocked(text_, children) ==
    LET hit == FirstOf({k \in 1..Len(children) :
                           HeaderNamesNormalLocked(text_, children[k])}, -1)
    IN  IF hit = -1 THEN NoBlock ELSE children[hit]

\* the first shared_except child of keybinds whose header quotes normal and
\* locked
SharedExceptOf(text_, keybinds) ==
    IF keybinds = NoBlock THEN NoBlock
    ELSE FirstNormalLocked(
             text_,
             find_blocks(text_, scan_code_and_depth(text_), S_shared_except,
                         keybinds.open_brace + 1, keybinds.close_brace,
                         keybinds.depth + 1, NoPredicate))

\* shared, a block of out, has no live-code SwitchToMode Normal and has a
\* bind whose keys include Enter and Esc and whose body switches to Locked
SharedReturnsToLocked(out, sc, shared, binds) ==
    /\ shared # NoBlock
    /\ \A p \in (shared.open_brace + 1)..(shared.close_brace - 1) :
          ~LiveSwitchToNormalAt(out, sc, p)
    /\ \E k \in 1..Len(binds) :
          /\ BindSwitches(out, binds[k], S_Enter, S_Locked)
          /\ BindSwitches(out, binds[k], S_Esc, S_Locked)

EnsureSteps ==
    {"ensure_default_mode_locked", "ensure_keybinds_block",
     "ensure_locked_ctrl_b_to_tmux", "ensure_tmux_block_locked_returns",
     "ensure_shared_except_normal_locked_returns"}

\* the check of validate_result for the invariant of the step op passes on
\* text_
StepInvariantHolds(op, text_, errs) ==
    CASE op = "ensure_default_mode_locked" -> ~(E_default_mode \in SetOf(errs))
      [] op = "ensure_keybinds_block" -> ~(E_keybinds \in SetOf(errs))
      [] op = "ensure_locked_ctrl_b_to_tmux" ->
             SetOf(errs) \cap {E_keybinds, E_locked, E_locked_bind} = {}
      [] op = "ensure_tmux_block_locked_returns" ->
             SetOf(errs) \cap {E_keybinds, E_tmux, E_tmux_normal} = {}
      [] OTHER -> SetOf(errs) \cap {E_keybinds, E_shared, E_shared_bind} = {}

\* C25: each of the five ensure steps f is idempotent.  Where f succeeds on
\* t, f(f(t)) = f(t); and f returns t unchanged when the check of the
\* validator for the invariant of f passes on t.
C25_StepIdempotent ==
    (call.op \in EnsureSteps /\ ~result.once.raised) =>
        /\ result.twice = result.once
        /\ StepInvariantHolds(call.op, subject, validate_result(subject))
               => result.once.text = subject

\* the checks (a) to (e) of the validator that fail on text_, whose keybinds
\* block is keybinds: (a) default_mode locked at depth 0, (b) the keybinds
\* block, (c) the locked child with Ctrl b to Tmux, (d) the tmux child without
\* SwitchToMode Normal, (e) the shared_except child with Enter and Esc to
\* Locked
FailingChecks(text_, keybinds) ==
    {c \in {"a", "b", "c", "d", "e"} :
        \/ c = "a" /\ ~has_top_level_default_mode_locked(text_)
        \/ c = "b" /\ keybinds = NoBlock
        \/ c = "c" /\ (keybinds = NoBlock
                       \/ LockedErrors(text_, find_mode_block(text_, keybinds, S_locked)) # <<>>)
        \/ c = "d" /\ (keybinds = NoBlock
                       \/ TmuxErrors(text_, find_mode_block(text_, keybinds, S_tmux)) # <<>>)
        \/ c = "e" /\ (keybinds = NoBlock
                       \/ SharedErrors(text_, find_shared_except_normal_locked_block(
                                                  text_, keybinds)) # <<>>)}

\* C26: the validator aggregates.  validate_result evaluates the checks (a)
\* to (e) independently and returns one entry for every check that fails,
\* never stopping at the first failure.
C26_ValidatorAggregates ==
    call.op = "validate_result" =>
        Len(result) = Cardinality(FailingChecks(subject, get_keybinds_block(subject)))

\* the leading whitespace of the first of lines that is neither blank nor a
\* comment-only line, and fallback when there is no such line
FirstContentIndent(lines, fallback) ==
    LET hit == FirstOf({n \in 1..Len(lines) : ~BlankOrComment(lines[n])}, -1)
    IN  IF hit = -1 THEN fallback ELSE Leading(lines[hit])

\* C27: infer_child_indent returns the leading whitespace of the first line
\* of the body of the parent that is neither blank nor comment-only, whatever
\* that whitespace is, and the indentation of the line of the parent plus
\* four spaces only when the body has no such line.
C27_ChildIndent ==
    call.op = "infer_child_indent" =>
        result = FirstContentIndent(
                     SplitLines(Slice(subject, call.parent.open_brace + 1,
                                      call.parent.close_brace)),
                     line_indent(subject, call.parent.keyword_pos) \o Indent4)

\* the offsets that the iteration of find_switch_mode_value_ranges at s.i,
\* which leads from the state s to the state t, treats as live code: the
\* newline that ends a line comment, a character met outside strings and
\* comments that opens none, and a SwitchToMode with the whitespace after it
LiveInStep(segment, s, t) ==
    IF s.in_line_comment THEN {k \in {s.i} : At(segment, k) = "\n"}
    ELSE IF s.in_block_comment \/ s.in_string THEN {}
    ELSE IF t.in_line_comment \/ t.in_block_comment \/ t.in_string THEN {}
    ELSE IF t.i > s.i + 1
         THEN s.i..(SkipSpaces(segment, s.i + Len(S_SwitchToMode)) - 1)
    ELSE {s.i}

\* one iteration of the walk, with the live offsets collected in w.live
WalkStep(segment, mode, w, t) ==
    [s |-> t, live |-> w.live \cup LiveInStep(segment, w.s, t)]

\* the offsets of segment that find_switch_mode_value_ranges treats as live
\* code
WalkerLive(segment, mode) ==
    Loop(LAMBDA w, k : IF k = w.s.i
                       THEN WalkStep(segment, mode, w, RangesStep(segment, mode, w.s))
                       ELSE w,
         [s |-> [i |-> 0, in_string |-> FALSE, in_line_comment |-> FALSE,
                 in_block_comment |-> FALSE, escaped |-> FALSE, ranges |-> <<>>],
          live |-> {}],
         0, Len(segment) - 1).live

\* the quote at offset q of segment is not escaped
Unescaped(segment, q, from) ==
    LET run == LastOf({m \in from..q : \A n \in m..(q - 1) : At(segment, n) = "\\"}, q)
    IN  (q - run) % 2 = 0

\* the range r of segment is the payload of a SwitchToMode that starts at the
\* offset p: the text between the quote after the whitespace that follows the
\* keyword and the first unescaped quote after it
PayloadOf(segment, r, p) ==
    /\ StartsWithAt(segment, S_SwitchToMode, p)
    /\ r[1] = SkipSpaces(segment, p + Len(S_SwitchToMode)) + 1
    /\ At(segment, r[1] - 1) = "\""
    /\ r[2] >= r[1]
    /\ r[2] < Len(segment)
    /\ At(segment, r[2]) = "\""
    /\ Unescaped(segment, r[2], r[1])
    /\ \A q \in r[1]..(r[2] - 1) :
          At(segment, q) = "\"" => ~Unescaped(segment, q, r[1])

\* the walk over segment, the body of a block that starts at the offset base
\* of text_, agrees with the code mask of text_, and every range collected is
\* the payload of a SwitchToMode that is live code of text_
WalkAgrees(text_, sc, base, segment, ranges, live) ==
    /\ \A k \in 0..(Len(segment) - 1) : (k \in live) = sc.code_mask[base + k]
    /\ \A n \in 1..Len(ranges) :
          \E p \in 0..(Len(segment) - 1) :
              /\ sc.code_mask[base + p]
              /\ PayloadOf(segment, ranges[n], p)

\* C28: the scanners agree.  For the body of a block, which starts at a
\* live-code offset, find_switch_mode_value_ranges treats an offset as live
\* code exactly when the code mask of scan_code_and_depth does for the same
\* offset of the document, so that a SwitchToMode is collected only when its
\* keyword is live code, and every range collected covers exactly the quoted
\* payload after a live-code SwitchToMode.
C28_ScannerAgreement ==
    call.op = "find_switch_mode_value_ranges" =>
        WalkAgrees(subject, scan_code_and_depth(subject),
                   call.parent.open_brace + 1,
                   Slice(subject, call.parent.open_brace + 1, call.parent.close_brace),
                   result,
                   WalkerLive(Slice(subject, call.parent.open_brace + 1,
                                    call.parent.close_brace), S_Normal))

\* the ranges of a body have been collected that has a SwitchToMode Normal as
\* live code and another one in a string or a comment
C28_Witness ==
    /\ call.op = "find_switch_mode_value_ranges"
    /\ result # <<>>
    /\ \E p \in (call.parent.open_brace + 1)..(call.parent.close_brace - 1) :
          /\ StartsWithAt(subject, S_SwitchToMode, p)
          /\ ~scan_code_and_depth(subject).code_mask[p]

----------------------------------------------------------------------------
(* atomic_write on its own, with file system calls that may raise          *)

\* a variant of Unlinked that leaves the file in the directory
UnlinkedNever(dir, name) == dir

\* the directory after `if tmp_path.exists(): tmp_path.unlink()`
Unlinked(dir, name) ==
    IF dir[name].exists THEN [dir EXCEPT ![name] = Absent] ELSE dir

\* the texts atomic_write is called with
WriteContents ==
    { Part_theme_tail \o NL,
      Part_default_normal_keep,
      WithCRLF(Part_default_normal_keep),
      DefaultModeLockedStmt \o NL \o KeybindsSnippet }

\* the OSError of a file system call
OsError == [kind |-> "os_error", msg |-> <<"OSError">>]

\* atomic_write(path, content) has been called
InitWrite ==
    /\ PipelineIdle
    /\ ScanIdle
    /\ mpc = "mkstemp"
    /\ fs \in {[target |-> f, tmp |-> Absent] : f \in MainFiles}
    /\ content \in WriteContents
    /\ ret = "returned"
    /\ skip = FALSE
    /\ generated = FALSE
    /\ original_text = <<>>
    /\ updated_text = <<>>
    /\ changed = FALSE
    /\ calls = [generate |-> 0, check |-> 0]
    /\ status = -1
    /\ stderr = <<>>
    /\ failure = NoFailure
    /\ pre = fs.target
    /\ replacing = fs.target
    /\ replaced = 0
    /\ observed = [seen |-> fs.target, old |-> fs.target, new |-> fs.target]
    /\ emitted = <<>>

\* handle.write, handle.flush, os.fsync or tmp_path.replace raises: the
\* except clause removes the temp file and raises the exception again
WriteRaises ==
    /\ mpc \in {"write", "flush", "fsync", "replace"}
    /\ fs' = Unlinked(fs, TempName)
    /\ failure' = OsError
    /\ mpc' = "raised"
    /\ UNCHANGED <<skip, generated, original_text, updated_text, changed,
                   content, ret, calls, status, stderr, pre, replacing,
                   replaced, observed>>
    /\ UNCHANGED <<emitted, pipeline_vars, scan_vars>>

NextWrite ==
    \/ Mkstemp
    \/ Write
    \/ Flush
    \/ Fsync
    \/ Replace
    \/ WriteRaises

SpecWrite == InitWrite /\ [][NextWrite]_vars

----------------------------------------------------------------------------
(* Claims about the writes of a run                                        *)

\* how often main itself has renamed a temp file over the target, the write
\* of a generated document by ensure_config_exists not counted
MainWrites == replaced - (IF generated THEN 1 ELSE 0)

\* the atomic_write of the updated text, and that of the original text, is
\* under way
WritingUpdate == InAtomicWrite /\ ret = "run_zellij_check"

WritingOriginal == InAtomicWrite /\ ret = "except"

\* main has read the document
DocumentRead ==
    \/ mpc \in {"transform_config", "run_zellij_check", "return"}
    \/ WritingUpdate
    \/ WritingOriginal
    \/ mpc \in {"except", "exited"} /\ (pre.exists \/ generated)

\* C29: the write protocol of a run.  Once the document exists main writes
\* the target at most twice, in this order: the updated text, only when it
\* differs from the text read and always before the post-check starts; then
\* the original text, only after the post-check has raised and only when the
\* updated text had been written.  With the skip flag, or for a document that
\* needs no change, there is no restoring write, and an unchanged document is
\* never written even when the post-check fails.
C29_WriteProtocol ==
    /\ DocumentRead => MainWrites \in 0..2
    /\ WritingUpdate =>
           /\ MainWrites = 0
           /\ content = updated_text
           /\ updated_text # original_text
           /\ calls.check = 0
           /\ failure = NoFailure
    /\ WritingOriginal =>
           /\ MainWrites = 1
           /\ content = original_text
           /\ changed
           /\ calls.check = 1
           /\ failure.kind \in {"check", "not_found", "timeout"}
    /\ (DocumentRead /\ calls.check = 1 /\ changed) => MainWrites >= 1
    /\ (DocumentRead /\ MainWrites = 2) =>
           /\ changed
           /\ calls.check = 1
           /\ failure.kind \in {"check", "not_found", "timeout"}
    /\ (DocumentRead /\ skip) => (~WritingOriginal /\ MainWrites <= 1)
    /\ (DocumentRead /\ ~changed /\ mpc \in {"run_zellij_check", "return", "except", "exited"})
           => (MainWrites = 0 /\ fs.target.exists /\ read_text(fs.target) = original_text)
    /\ (DocumentRead /\ ~changed) => ~WritingOriginal

\* a run has written the updated text, the post-check has failed, and the
\* run has written the original text back
C29_Witness ==
    /\ mpc = "exited"
    /\ MainWrites = 2
    /\ ~generated

\* C30: a failed write leaves no trace.  When writing, flushing, syncing or
\* renaming inside atomic_write raises, the target still has the content it
\* had, or still does not exist, the temp file is gone from the directory,
\* and the exception reaches the caller.
C30_FailedWriteLeavesNoTrace ==
    /\ failure # NoFailure =>
           /\ mpc = "raised"
           /\ failure = OsError
           /\ fs.target = pre
           /\ ~fs.tmp.exists
           /\ replaced = 0
    /\ mpc = "returned" =>
           /\ failure = NoFailure
           /\ fs = [target |-> File(Encoded(content)), tmp |-> Absent]

\* a write to a target that did not exist has failed
C30_Witness ==
    /\ mpc = "raised"
    /\ failure = OsError
    /\ ~pre.exists
    /\ ~fs.target.exists

====
